---- MODULE Spec2Model ----
(***************************************************************************)
(* Model of the hash-table symbol table of src/symtablehash.c (the final   *)
(* implementation, lines 650-1109) and of its interface symtable.h.        *)
(*                                                                         *)
(* The heap is modelled explicitly: binding nodes and key copies are       *)
(* blocks of two arenas, the bucket array is a sequence of node addresses  *)
(* held by the SymTable record.  Every interface function is one action    *)
(* that runs the whole function body.  malloc/calloc may fail at every     *)
(* call: the outcome of each allocation is an input of the action.         *)
(*                                                                         *)
(* The capacities of BUCKET_COUNTS (509, 1021, ...) are scaled down to     *)
(* Cap0 < Cap1 < Cap2 so that growth steps and the maximum capacity are    *)
(* reached with a handful of keys; the code uses the capacities only       *)
(* through BUCKET_COUNTS[i] and BUCKET_COUNTS_LEN.                         *)
(***************************************************************************)
EXTENDS Integers, Sequences, FiniteSets, TLC

\* ------------------------------------------------------------------------
\* Bounds of the model
\* ------------------------------------------------------------------------

\* scaled capacities standing for 509, 1021, 2039, ...
Cap0 == 1

Cap1 == 2

Cap2 == 3

\* number of blocks in the node arena and in the key-copy arena
MaxNodes == 4

\* longest key passed to SymTable_hash on its own
MaxKeyLen == 5

\* ------------------------------------------------------------------------
\* Program constants and input domains
\* ------------------------------------------------------------------------

NULL == 0

\* sizeof(size_t) in bytes: the accumulator of SymTable_hash is a size_t
WordBytes == 8

HASH_MULTIPLIER == 65599

BUCKET_COUNTS == <<Cap0, Cap1, Cap2>>

BUCKET_COUNTS_LEN == Len(BUCKET_COUNTS)

\* keys passed by the caller: C strings as sequences of non-zero bytes
\* "", "a", "ab"
Keys == {<<>>, <<97>>, <<97, 98>>}

\* values passed by the caller: opaque pointers, NULL included
Values == {NULL, 1}

\* one key more than the last capacity has buckets: "", "a", "aa", ...
ManyKeys == {[u \in 1..len |-> 97] : len \in 0..Cap2}

AllKeys == Keys \cup ManyKeys

NodeAddrs == 1..MaxNodes

\* bytes of the keys passed to SymTable_hash on its own: an ASCII letter
\* and two bytes with the top bit set
HashBytes == {97, 128, 255}

\* bucket counts passed to SymTable_hash on its own
HashBucketCounts == {1, 2, 509, 1021, 32749}

\* the value of pcKey[u] for a byte b of the key: plain char is signed in
\* some builds and unsigned in others
CharOfByte(b, charSigned) == IF charSigned /\ b >= 128 THEN b - 256 ELSE b

\* the address of the buffer the caller passes as pcKey: it lies in the
\* arena of key blocks, but is owned by the caller and never returned by
\* malloc
CallerAddr == MaxNodes + 1

KeyAddrs == NodeAddrs \cup {CallerAddr}

\* ------------------------------------------------------------------------
\* size_t arithmetic: a word is a little-endian sequence of WordBytes
\* base-256 digits, all arithmetic is modulo 2^(8*WordBytes)
\* ------------------------------------------------------------------------

ZeroWord == [i \in 1..WordBytes |-> 0]

\* (size_t)c for a character c of the key: a negative c converts to
\* 2^(8*WordBytes) + c
CharToSizeT(c) ==
    [i \in 1..WordBytes |->
        IF c >= 0 THEN (IF i = 1 THEN c ELSE 0)
        ELSE (IF i = 1 THEN c + 256 ELSE 255)]

RECURSIVE MulDigits(_, _, _, _)
MulDigits(w, m, carry, i) ==
    IF i > WordBytes THEN <<>>
    ELSE LET t == w[i] * m + carry
         IN  <<t % 256>> \o MulDigits(w, m, t \div 256, i + 1)

\* w * m, wrapping around
MulWord(w, m) == MulDigits(w, m, 0, 1)

RECURSIVE AddDigits(_, _, _, _)
AddDigits(a, b, carry, i) ==
    IF i > WordBytes THEN <<>>
    ELSE LET t == a[i] + b[i] + carry
         IN  <<t % 256>> \o AddDigits(a, b, t \div 256, i + 1)

\* a + b, wrapping around
AddWord(a, b) == AddDigits(a, b, 0, 1)

RECURSIVE ModDigits(_, _, _, _)
ModDigits(w, n, r, i) ==
    IF i < 1 THEN r
    ELSE ModDigits(w, n, (r * 256 + w[i]) % n, i - 1)

\* w % n
ModWord(w, n) == ModDigits(w, n, 0, WordBytes)

RECURSIVE HashLoop(_, _, _)
HashLoop(pcKey, u, uHash) ==
    IF u > Len(pcKey) THEN uHash
    ELSE HashLoop(pcKey, u + 1,
                  AddWord(MulWord(uHash, HASH_MULTIPLIER),
                          CharToSizeT(pcKey[u])))

\* faulty variant: the accumulator is reduced modulo 256
SymTable_hash_Mod256(pcKey, uBucketCount) ==
    ModWord(HashLoop(pcKey, 1, ZeroWord), 256)

SymTable_hash(pcKey, uBucketCount) ==
    ModWord(HashLoop(pcKey, 1, ZeroWord), uBucketCount)

\* SymTable_hash tabulated once for the keys and capacities of the model
HashTable ==
    [n \in {BUCKET_COUNTS[i] : i \in 1..BUCKET_COUNTS_LEN} |->
        [k \in AllKeys |-> SymTable_hash(k, n)]]

Hash(pcKey, uBucketCount) ==
    IF pcKey \in AllKeys /\ uBucketCount \in DOMAIN HashTable
    THEN HashTable[uBucketCount][pcKey]
    ELSE SymTable_hash(pcKey, uBucketCount)

\* ------------------------------------------------------------------------
\* State
\* ------------------------------------------------------------------------

VARIABLES
    oSymTable,  \* the struct SymTable the caller holds (live = FALSE: none)
    nodeMem,    \* arena of struct Binding blocks
    keyMem,     \* arena of key-copy blocks
    blocks,     \* how many SymTable records and bucket arrays are allocated
    lastOp,     \* the last interface call: its arguments and its result
    netPuts,    \* Puts that returned 1 minus Removes that removed a binding
    oSymTableList,  \* the SymTable record of the linked-list variant
    listRet,    \* how the last call of the linked-list variant ended
    twin        \* a second hash table given the same calls: its record,
                \* its arenas and the result of its last call

vars == <<oSymTable, nodeMem, keyMem, blocks, lastOp, netPuts,
          oSymTableList, listRet, twin>>

\* the state of the linked-list variant
listVars == <<oSymTableList, listRet>>

\* a block that is not allocated
FreeNode == [live |-> FALSE, key |-> NULL, value |-> NULL, next |-> NULL]

FreeKey == [live |-> FALSE, bytes |-> <<>>]

NoTable == [live |-> FALSE, buckets |-> <<>>, bindingsCount |-> 0,
            bucketSizeIndex |-> 0]

\* BUCKET_COUNTS[i] for the 0-based index i of the C code
BucketCountAt(i) == BUCKET_COUNTS[i + 1]

\* malloc picks a block that is not allocated; addresses are not observed
\* by the program, so the lowest free address stands for any of them
HasFree(mem) == {a \in NodeAddrs : ~mem[a].live} # {}

AllocAddr(mem) ==
    CHOOSE a \in NodeAddrs :
        ~mem[a].live /\ \A b \in NodeAddrs : b < a => mem[b].live

\* the bytes of the key copy a binding points to
KeyOf(nodes, keys, n) == keys[nodes[n].key].bytes

\* one call of malloc, calloc or free: op is "alloc" or "free", kind is
\* "record", "buckets", "node" or "key", addr the address in the arena of
\* nodes or key copies (NULL for the record and the bucket array); op
\* "relink" is the move of node addr into the new bucket array by
\* SymTable_tryExpand
Ev(op, kind, addr) == <<op, kind, addr>>

\* the allocated records and bucket arrays after the calls of mem
RECURSIVE ApplyMem(_, _)
ApplyMem(b, mem) ==
    IF mem = <<>> THEN b
    ELSE LET e == Head(mem)
             d == IF e[1] = "alloc" THEN 1 ELSE -1
         IN  ApplyMem(IF e[2] \in {"record", "buckets"}
                      THEN [b EXCEPT ![e[2]] = @ + d] ELSE b,
                      Tail(mem))

\* a record of one call: grow and fail are set by Put (and fail by New),
\* pos by Remove; name "clobber" is a write of the caller to its key
\* buffer; visits are the calls made by the function, in order:
\* the (*pfApply) calls of Map, the free calls of Free, and the
\* allocations, relinkings and frees of Put
Op(name, key, value, ret, grow, fail, pos, visits) ==
    [name |-> name, key |-> key, value |-> value, ret |-> ret,
     grow |-> grow, fail |-> fail, pos |-> pos, visits |-> visits]

\* ------------------------------------------------------------------------
\* Chain walks
\* ------------------------------------------------------------------------

\* faulty variant: only the head of the chain is compared
FindInChain_HeadOnly(nodes, keys, curr, pcKey) ==
    IF curr = NULL THEN NULL
    ELSE IF KeyOf(nodes, keys, curr) = pcKey THEN curr
    ELSE NULL

\* while (curr != NULL) { if (strcmp(curr->key, pcKey) == 0) ...;
\*                        curr = curr->next; }
\* the first binding of the chain whose key equals pcKey, or NULL
RECURSIVE FindInChain(_, _, _, _)
FindInChain(nodes, keys, curr, pcKey) ==
    IF curr = NULL THEN NULL
    ELSE IF KeyOf(nodes, keys, curr) = pcKey THEN curr
    ELSE FindInChain(nodes, keys, nodes[curr].next, pcKey)

\* while (curr->next != NULL) { if (strcmp(curr->next->key, pcKey) == 0)
\*                              ...; curr = curr->next; }
\* the first binding whose successor has key pcKey, or NULL
RECURSIVE FindPred(_, _, _, _)
FindPred(nodes, keys, curr, pcKey) ==
    IF nodes[curr].next = NULL THEN NULL
    ELSE IF KeyOf(nodes, keys, nodes[curr].next) = pcKey THEN curr
    ELSE FindPred(nodes, keys, nodes[curr].next, pcKey)

\* ------------------------------------------------------------------------
\* SymTable_tryExpand
\* ------------------------------------------------------------------------

\* faulty variant: the new slot is computed for one bucket too few
RECURSIVE RehashChain_ShortCount(_, _, _, _, _)
RehashChain_ShortCount(nodes, keys, newBuckets, curr, newBucketCount) ==
    IF curr = NULL
    THEN [nodes |-> nodes, newBuckets |-> newBuckets, mem |-> <<>>]
    ELSE LET next == nodes[curr].next
             hashSlot == Hash(KeyOf(nodes, keys, curr), newBucketCount - 1)
             r == RehashChain_ShortCount(
                      [nodes EXCEPT ![curr].next = newBuckets[hashSlot + 1]],
                      keys,
                      [newBuckets EXCEPT ![hashSlot + 1] = curr],
                      next, newBucketCount)
         IN  [r EXCEPT !.mem = <<Ev("relink", "node", curr)>> \o @]

\* inner loop: relink the chain starting at curr into newBuckets
RECURSIVE RehashChain_KeepsNext(_, _, _, _, _)
\* faulty variant: a relinked node keeps its old next pointer
RehashChain_KeepsNext(nodes, keys, newBuckets, curr, newBucketCount) ==
    IF curr = NULL
    THEN [nodes |-> nodes, newBuckets |-> newBuckets, mem |-> <<>>]
    ELSE LET next == nodes[curr].next
             hashSlot == Hash(KeyOf(nodes, keys, curr), newBucketCount)
             r == RehashChain_KeepsNext(
                      nodes, keys,
                      [newBuckets EXCEPT ![hashSlot + 1] = curr],
                      next, newBucketCount)
         IN  [r EXCEPT !.mem = <<Ev("relink", "node", curr)>> \o @]

RECURSIVE RehashChain_ClearsValue(_, _, _, _, _)
\* faulty variant: relinking a node sets its value to NULL
RehashChain_ClearsValue(nodes, keys, newBuckets, curr, newBucketCount) ==
    IF curr = NULL
    THEN [nodes |-> nodes, newBuckets |-> newBuckets, mem |-> <<>>]
    ELSE LET next == nodes[curr].next
             hashSlot == Hash(KeyOf(nodes, keys, curr), newBucketCount)
             r == RehashChain_ClearsValue(
                      [nodes EXCEPT ![curr].next = newBuckets[hashSlot + 1],
                                    ![curr].value = NULL],
                      keys,
                      [newBuckets EXCEPT ![hashSlot + 1] = curr],
                      next, newBucketCount)
         IN  [r EXCEPT !.mem = <<Ev("relink", "node", curr)>> \o @]

RECURSIVE RehashChain(_, _, _, _, _)
RehashChain(nodes, keys, newBuckets, curr, newBucketCount) ==
    IF curr = NULL
    THEN [nodes |-> nodes, newBuckets |-> newBuckets, mem |-> <<>>]
    ELSE LET next == nodes[curr].next
             hashSlot == Hash(KeyOf(nodes, keys, curr), newBucketCount)
             r == RehashChain(
                      [nodes EXCEPT ![curr].next = newBuckets[hashSlot + 1]],
                      keys,
                      [newBuckets EXCEPT ![hashSlot + 1] = curr],
                      next, newBucketCount)
         IN  [r EXCEPT !.mem = <<Ev("relink", "node", curr)>> \o @]

\* faulty variant: the loop stops one bucket early
RECURSIVE RehashAll_OffByOne(_, _, _, _, _, _, _)
RehashAll_OffByOne(nodes, keys, oldBuckets, newBuckets, i, curBucketCount, newBucketCount) ==
    IF i >= curBucketCount - 1
    THEN [nodes |-> nodes, newBuckets |-> newBuckets, mem |-> <<>>]
    ELSE LET r == RehashChain(nodes, keys, newBuckets, oldBuckets[i + 1],
                              newBucketCount)
             rest == RehashAll_OffByOne(r.nodes, keys, oldBuckets,
                                        r.newBuckets, i + 1, curBucketCount,
                                        newBucketCount)
         IN  [rest EXCEPT !.mem = r.mem \o @]

\* outer loop: for (i = 0; i < curBucketCount; i++)
RECURSIVE RehashAll(_, _, _, _, _, _, _)
RehashAll(nodes, keys, oldBuckets, newBuckets, i, curBucketCount, newBucketCount) ==
    IF i >= curBucketCount
    THEN [nodes |-> nodes, newBuckets |-> newBuckets, mem |-> <<>>]
    ELSE LET r == RehashChain(nodes, keys, newBuckets, oldBuckets[i + 1],
                              newBucketCount)
             rest == RehashAll(r.nodes, keys, oldBuckets, r.newBuckets,
                               i + 1, curBucketCount, newBucketCount)
         IN  [rest EXCEPT !.mem = r.mem \o @]

\* faulty variant: the binding about to be added is not counted
ExpandWarranted_Late(tab) ==
    /\ ~(tab.bucketSizeIndex >= BUCKET_COUNTS_LEN - 1)
    /\ ~(tab.bindingsCount <= BucketCountAt(tab.bucketSizeIndex))

\* the first two early returns of SymTable_tryExpand: an expansion is
\* attempted iff neither is taken
ExpandWarranted(tab) ==
    /\ ~(tab.bucketSizeIndex >= BUCKET_COUNTS_LEN - 1)
    /\ ~(tab.bindingsCount + 1 <= BucketCountAt(tab.bucketSizeIndex))

\* faulty variant: the new bucket array has one slot more than the
\* capacity of its index
SymTable_tryExpand_ExtraSlot(tab, nodes, keys, callocOK) ==
    IF ~ExpandWarranted(tab)
    THEN [tab |-> tab, nodes |-> nodes, grow |-> "none", mem |-> <<>>]
    ELSE IF ~callocOK
    THEN [tab |-> tab, nodes |-> nodes, grow |-> "failed", mem |-> <<>>]
    ELSE LET curBucketCount == BucketCountAt(tab.bucketSizeIndex)
             newBucketSizeIndex == tab.bucketSizeIndex + 1
             newBucketCount == BucketCountAt(newBucketSizeIndex)
             r == RehashAll(nodes, keys, tab.buckets,
                            [j \in 1..(newBucketCount + 1) |-> NULL], 0,
                            curBucketCount, newBucketCount)
         IN  [tab |-> [tab EXCEPT !.buckets = r.newBuckets,
                                  !.bucketSizeIndex = newBucketSizeIndex],
              nodes |-> r.nodes, grow |-> "done",
              mem |-> <<Ev("alloc", "buckets", NULL)>> \o r.mem
                      \o <<Ev("free", "buckets", NULL)>>]

\* faulty variant: the old bucket array is not freed
SymTable_tryExpand_LeaksOld(tab, nodes, keys, callocOK) ==
    IF ~ExpandWarranted(tab)
    THEN [tab |-> tab, nodes |-> nodes, grow |-> "none", mem |-> <<>>]
    ELSE IF ~callocOK
    THEN [tab |-> tab, nodes |-> nodes, grow |-> "failed", mem |-> <<>>]
    ELSE LET curBucketCount == BucketCountAt(tab.bucketSizeIndex)
             newBucketSizeIndex == tab.bucketSizeIndex + 1
             newBucketCount == BucketCountAt(newBucketSizeIndex)
             r == RehashAll(nodes, keys, tab.buckets,
                            [j \in 1..newBucketCount |-> NULL], 0,
                            curBucketCount, newBucketCount)
         IN  [tab |-> [tab EXCEPT !.buckets = r.newBuckets,
                                  !.bucketSizeIndex = newBucketSizeIndex],
              nodes |-> r.nodes, grow |-> "done",
              mem |-> <<Ev("alloc", "buckets", NULL)>> \o r.mem]

\* faulty variant: the expansion moves two steps up the sequence when it
\* can
SymTable_tryExpand_SkipsOne(tab, nodes, keys, callocOK) ==
    IF ~ExpandWarranted(tab)
    THEN [tab |-> tab, nodes |-> nodes, grow |-> "none", mem |-> <<>>]
    ELSE IF ~callocOK
    THEN [tab |-> tab, nodes |-> nodes, grow |-> "failed", mem |-> <<>>]
    ELSE LET curBucketCount == BucketCountAt(tab.bucketSizeIndex)
             newBucketSizeIndex ==
                 IF tab.bucketSizeIndex + 2 <= BUCKET_COUNTS_LEN - 1
                 THEN tab.bucketSizeIndex + 2 ELSE tab.bucketSizeIndex + 1
             newBucketCount == BucketCountAt(newBucketSizeIndex)
             r == RehashAll(nodes, keys, tab.buckets,
                            [j \in 1..newBucketCount |-> NULL], 0,
                            curBucketCount, newBucketCount)
         IN  [tab |-> [tab EXCEPT !.buckets = r.newBuckets,
                                  !.bucketSizeIndex = newBucketSizeIndex],
              nodes |-> r.nodes, grow |-> "done",
              mem |-> <<Ev("alloc", "buckets", NULL)>> \o r.mem
                          \o <<Ev("free", "buckets", NULL)>>]

\* callocOK: whether calloc of the new bucket array succeeds
\* mem: the calloc of the new bucket array, the relinking of every node
\*      and the free of the old bucket array, in the order of the code
\* grow: "none" no expansion attempted, "failed" calloc returned NULL,
\*       "done" the table was rehashed into the next capacity
SymTable_tryExpand(tab, nodes, keys, callocOK) ==
    IF ~ExpandWarranted(tab)
    THEN [tab |-> tab, nodes |-> nodes, grow |-> "none", mem |-> <<>>]
    ELSE IF ~callocOK
    THEN [tab |-> tab, nodes |-> nodes, grow |-> "failed", mem |-> <<>>]
    ELSE LET curBucketCount == BucketCountAt(tab.bucketSizeIndex)
             newBucketSizeIndex == tab.bucketSizeIndex + 1
             newBucketCount == BucketCountAt(newBucketSizeIndex)
             r == RehashAll(nodes, keys, tab.buckets,
                            [j \in 1..newBucketCount |-> NULL], 0,
                            curBucketCount, newBucketCount)
         IN  [tab |-> [tab EXCEPT !.buckets = r.newBuckets,
                                  !.bucketSizeIndex = newBucketSizeIndex],
              nodes |-> r.nodes, grow |-> "done",
              mem |-> <<Ev("alloc", "buckets", NULL)>> \o r.mem
                          \o <<Ev("free", "buckets", NULL)>>]

\* ------------------------------------------------------------------------
\* Interface functions as functions of the heap
\* ------------------------------------------------------------------------

\* head of the chain pcKey hashes to under the current capacity
BucketOf(tab, pcKey) ==
    Hash(pcKey, BucketCountAt(tab.bucketSizeIndex))

SymTable_getLength(tab) == tab.bindingsCount

SymTable_contains(tab, nodes, keys, pcKey) ==
    LET bucketIndex == BucketOf(tab, pcKey)
        curr == FindInChain(nodes, keys, tab.buckets[bucketIndex + 1], pcKey)
    IN  IF curr # NULL THEN 1 ELSE 0

\* faulty variant: the value of the head of the chain is returned instead
\* of the value of the binding found
SymTable_get_HeadValue(tab, nodes, keys, pcKey) ==
    LET bucketIndex == BucketOf(tab, pcKey)
        curr == FindInChain(nodes, keys, tab.buckets[bucketIndex + 1], pcKey)
    IN  IF curr # NULL THEN nodes[tab.buckets[bucketIndex + 1]].value
        ELSE NULL

SymTable_get(tab, nodes, keys, pcKey) ==
    LET bucketIndex == BucketOf(tab, pcKey)
        curr == FindInChain(nodes, keys, tab.buckets[bucketIndex + 1], pcKey)
    IN  IF curr # NULL THEN nodes[curr].value ELSE NULL

\* The result of SymTable_put: the heap after the call, the returned int,
\* what the expansion did ("none", "failed", "done") and why the call
\* returned 0 ("dup", "node", "key"; "" when it returned 1), and the
\* allocations, relinkings and frees it made, in order
PutResult(tab, nodes, keys, ret, grow, fail, mem) ==
    [tab |-> tab, nodes |-> nodes, keys |-> keys, ret |-> ret,
     grow |-> grow, fail |-> fail, mem |-> mem]

\* faulty variant: a Put of a bound key overwrites the value
PutDuplicate_Upsert(tab, nodes, keys, dup, pvValue) ==
    PutResult(tab, [nodes EXCEPT ![dup].value = pvValue], keys, 0, "none",
              "dup", <<>>)

\* faulty variant: a Put of a bound key reports success
PutDuplicate_ReturnsOne(tab, nodes, keys, dup, pvValue) ==
    PutResult(tab, nodes, keys, 1, "none", "dup", <<>>)

\* if (strcmp(curr->key, pcKey) == 0) return 0;   (dup: the binding found)
PutDuplicate(tab, nodes, keys, dup, pvValue) ==
    PutResult(tab, nodes, keys, 0, "none", "dup", <<>>)

\* faulty variant: the bucket index is not recomputed after the expansion
InsertSlot_Stale(tab, exTab, pcKey) == BucketOf(tab, pcKey)

\* bucketIndex = SymTable_hash(pcKey, BUCKET_COUNTS[bucketSizeIndex])
\* computed again after SymTable_tryExpand (tab: before, exTab: after)
InsertSlot(tab, exTab, pcKey) == BucketOf(exTab, pcKey)

\* faulty variant: no key block is allocated, the binding points to the
\* buffer of the caller
LinkNew_Alias(tab, nodes, keys, pcKey, pvValue, bucketIndex, grow, mem) ==
    LET newBinding == AllocAddr(nodes)
    IN  PutResult(
            [tab EXCEPT !.buckets[bucketIndex + 1] = newBinding,
                        !.bindingsCount = @ + 1],
            [nodes EXCEPT ![newBinding] =
                [live |-> TRUE, key |-> CallerAddr, value |-> pvValue,
                 next |-> tab.buckets[bucketIndex + 1]]],
            keys,
            1, grow, "", mem)

\* faulty variant: bindingsCount is not incremented
LinkNew_NoIncrement(tab, nodes, keys, pcKey, pvValue, bucketIndex, grow, mem) ==
    LET newBinding == AllocAddr(nodes)
        keyCopy == AllocAddr(keys)
    IN  PutResult(
            [tab EXCEPT !.buckets[bucketIndex + 1] = newBinding],
            [nodes EXCEPT ![newBinding] =
                [live |-> TRUE, key |-> keyCopy, value |-> pvValue,
                 next |-> tab.buckets[bucketIndex + 1]]],
            [keys EXCEPT ![keyCopy] = [live |-> TRUE, bytes |-> pcKey]],
            1, grow, "", mem)

\* strcpy into the new key block, fill the new node, link it at the head
\* of bucket bucketIndex, bindingsCount++, return 1
\* faulty variant: the new binding is linked behind the head of a chain
\* that is not empty
LinkNew_AfterHead(tab, nodes, keys, pcKey, pvValue, bucketIndex, grow, mem) ==
    LET newBinding == AllocAddr(nodes)
        keyCopy == AllocAddr(keys)
        head == tab.buckets[bucketIndex + 1]
    IN  PutResult(
            [tab EXCEPT !.buckets[bucketIndex + 1] =
                            IF head = NULL THEN newBinding ELSE head,
                        !.bindingsCount = @ + 1],
            IF head = NULL
            THEN [nodes EXCEPT ![newBinding] =
                    [live |-> TRUE, key |-> keyCopy, value |-> pvValue,
                     next |-> NULL]]
            ELSE [nodes EXCEPT ![newBinding] =
                    [live |-> TRUE, key |-> keyCopy, value |-> pvValue,
                     next |-> nodes[head].next],
                               ![head].next = newBinding],
            [keys EXCEPT ![keyCopy] = [live |-> TRUE, bytes |-> pcKey]],
            1, grow, "",
            mem \o <<Ev("alloc", "node", newBinding),
                     Ev("alloc", "key", keyCopy)>>)

LinkNew(tab, nodes, keys, pcKey, pvValue, bucketIndex, grow, mem) ==
    LET newBinding == AllocAddr(nodes)
        keyCopy == AllocAddr(keys)
    IN  PutResult(
            [tab EXCEPT !.buckets[bucketIndex + 1] = newBinding,
                        !.bindingsCount = @ + 1],
            [nodes EXCEPT ![newBinding] =
                [live |-> TRUE, key |-> keyCopy, value |-> pvValue,
                 next |-> tab.buckets[bucketIndex + 1]]],
            [keys EXCEPT ![keyCopy] = [live |-> TRUE, bytes |-> pcKey]],
            1, grow, "",
            mem \o <<Ev("alloc", "node", newBinding),
                     Ev("alloc", "key", keyCopy)>>)

\* faulty variant: a failed expansion makes the Put fail
PutInsert_GrowthFatal(ex, keys, pcKey, pvValue, bucketIndex, nodeOK, keyOK) ==
    IF ex.grow = "failed"
    THEN PutResult(ex.tab, ex.nodes, keys, 0, ex.grow, "grow", ex.mem)
    ELSE IF ~nodeOK
    THEN PutResult(ex.tab, ex.nodes, keys, 0, ex.grow, "node", ex.mem)
    ELSE IF ~keyOK
    THEN PutResult(ex.tab, ex.nodes, keys, 0, ex.grow, "key", ex.mem)
    ELSE LinkNew(ex.tab, ex.nodes, keys, pcKey, pvValue, bucketIndex,
                 ex.grow, ex.mem)

\* faulty variant: bindingsCount is incremented before the key copy is
\* allocated
PutInsert_CountBeforeKey(ex, keys, pcKey, pvValue, bucketIndex, nodeOK, keyOK) ==
    IF ~nodeOK
    THEN PutResult(ex.tab, ex.nodes, keys, 0, ex.grow, "node", ex.mem)
    ELSE IF ~keyOK
    THEN PutResult([ex.tab EXCEPT !.bindingsCount = @ + 1], ex.nodes, keys,
                   0, ex.grow, "key", ex.mem)
    ELSE LinkNew(ex.tab, ex.nodes, keys, pcKey, pvValue, bucketIndex,
                 ex.grow, ex.mem)

\* faulty variant: a table with no empty slot left rejects the Put
PutInsert_RejectsWhenFull(ex, keys, pcKey, pvValue, bucketIndex, nodeOK, keyOK) ==
    IF ex.tab.bindingsCount >= BucketCountAt(ex.tab.bucketSizeIndex)
    THEN PutResult(ex.tab, ex.nodes, keys, 0, ex.grow, "full", ex.mem)
    ELSE IF ~nodeOK
    THEN PutResult(ex.tab, ex.nodes, keys, 0, ex.grow, "node", ex.mem)
    ELSE IF ~keyOK
    THEN PutResult(ex.tab, ex.nodes, keys, 0, ex.grow, "key", ex.mem)
    ELSE LinkNew(ex.tab, ex.nodes, keys, pcKey, pvValue, bucketIndex,
                 ex.grow, ex.mem)

\* the part of SymTable_put after SymTable_tryExpand returned ex:
\* malloc of the node, malloc of the key copy (the node is freed again
\* when it fails), then the insertion
\* faulty variant: the node stays allocated when the key copy cannot be
\* allocated
PutInsert_LeaksNode(ex, keys, pcKey, pvValue, bucketIndex, nodeOK, keyOK) ==
    IF ~nodeOK
    THEN PutResult(ex.tab, ex.nodes, keys, 0, ex.grow, "node", ex.mem)
    ELSE IF ~keyOK
    THEN PutResult(ex.tab,
                   [ex.nodes EXCEPT ![AllocAddr(ex.nodes)] =
                       [live |-> TRUE, key |-> NULL, value |-> pvValue,
                        next |-> NULL]],
                   keys, 0, ex.grow, "key",
                   ex.mem \o <<Ev("alloc", "node", AllocAddr(ex.nodes))>>)
    ELSE LinkNew(ex.tab, ex.nodes, keys, pcKey, pvValue, bucketIndex,
                 ex.grow, ex.mem)

PutInsert(ex, keys, pcKey, pvValue, bucketIndex, nodeOK, keyOK) ==
    IF ~nodeOK
    THEN PutResult(ex.tab, ex.nodes, keys, 0, ex.grow, "node", ex.mem)
    ELSE IF ~keyOK
    THEN PutResult(ex.tab, ex.nodes, keys, 0, ex.grow, "key",
                   ex.mem \o <<Ev("alloc", "node", AllocAddr(ex.nodes)),
                               Ev("free", "node", AllocAddr(ex.nodes))>>)
    ELSE LinkNew(ex.tab, ex.nodes, keys, pcKey, pvValue, bucketIndex,
                 ex.grow, ex.mem)

SymTable_put(tab, nodes, keys, pcKey, pvValue, callocOK, nodeOK, keyOK) ==
    LET bucketIndex == BucketOf(tab, pcKey)
        dup == FindInChain(nodes, keys, tab.buckets[bucketIndex + 1], pcKey)
    IN  IF dup # NULL
        THEN PutDuplicate(tab, nodes, keys, dup, pvValue)
        ELSE LET ex == SymTable_tryExpand(tab, nodes, keys, callocOK)
             IN  PutInsert(ex, keys, pcKey, pvValue,
                           InsertSlot(tab, ex.tab, pcKey), nodeOK, keyOK)

\* faulty variant: the new value is returned instead of the old one
SymTable_replace_ReturnsNew(tab, nodes, keys, pcKey, pvValue) ==
    LET bucketIndex == BucketOf(tab, pcKey)
        curr == FindInChain(nodes, keys, tab.buckets[bucketIndex + 1], pcKey)
    IN  IF curr # NULL
        THEN [nodes |-> [nodes EXCEPT ![curr].value = pvValue],
              ret |-> pvValue]
        ELSE [nodes |-> nodes, ret |-> NULL]

SymTable_replace(tab, nodes, keys, pcKey, pvValue) ==
    LET bucketIndex == BucketOf(tab, pcKey)
        curr == FindInChain(nodes, keys, tab.buckets[bucketIndex + 1], pcKey)
    IN  IF curr # NULL
        THEN [nodes |-> [nodes EXCEPT ![curr].value = pvValue],
              ret |-> nodes[curr].value]
        ELSE [nodes |-> nodes, ret |-> NULL]

\* faulty variant: the binding is neither unlinked nor freed
Unlink_KeepLinked(tab, nodes, keys, bucketIndex, pred, nodeRemoved) ==
    [tab |-> [tab EXCEPT !.bindingsCount = @ - 1],
     nodes |-> nodes, keys |-> keys,
     ret |-> nodes[nodeRemoved].value,
     pos |-> IF pred = NULL THEN "head" ELSE "inner"]

\* faulty variant: bindingsCount is not decremented
Unlink_NoDecrement(tab, nodes, keys, bucketIndex, pred, nodeRemoved) ==
    [tab |-> [tab EXCEPT
                !.buckets[bucketIndex + 1] =
                    IF pred = NULL THEN nodes[nodeRemoved].next ELSE @],
     nodes |-> [a \in NodeAddrs |->
                  IF a = nodeRemoved THEN FreeNode
                  ELSE IF a = pred
                  THEN [nodes[a] EXCEPT !.next = nodes[nodeRemoved].next]
                  ELSE nodes[a]],
     keys |-> [keys EXCEPT ![nodes[nodeRemoved].key] = FreeKey],
     ret |-> nodes[nodeRemoved].value,
     pos |-> IF pred = NULL THEN "head" ELSE "inner"]

\* faulty variant: the bindings after the removed one are cut off the chain
Unlink_DropsTail(tab, nodes, keys, bucketIndex, pred, nodeRemoved) ==
    [tab |-> [tab EXCEPT
                !.buckets[bucketIndex + 1] = IF pred = NULL THEN NULL ELSE @,
                !.bindingsCount = @ - 1],
     nodes |-> [a \in NodeAddrs |->
                  IF a = nodeRemoved THEN FreeNode
                  ELSE IF a = pred THEN [nodes[a] EXCEPT !.next = NULL]
                  ELSE nodes[a]],
     keys |-> [keys EXCEPT ![nodes[nodeRemoved].key] = FreeKey],
     ret |-> nodes[nodeRemoved].value,
     pos |-> IF pred = NULL THEN "head" ELSE "inner"]

\* unlink nodeRemoved, free its key copy and the node, bindingsCount--,
\* return its value (pred = NULL: nodeRemoved is the head of the bucket,
\* otherwise pred is the binding before it)
Unlink(tab, nodes, keys, bucketIndex, pred, nodeRemoved) ==
    [tab |-> [tab EXCEPT
                !.buckets[bucketIndex + 1] =
                    IF pred = NULL THEN nodes[nodeRemoved].next ELSE @,
                !.bindingsCount = @ - 1],
     nodes |-> [a \in NodeAddrs |->
                  IF a = nodeRemoved THEN FreeNode
                  ELSE IF a = pred
                  THEN [nodes[a] EXCEPT !.next = nodes[nodeRemoved].next]
                  ELSE nodes[a]],
     keys |-> [keys EXCEPT ![nodes[nodeRemoved].key] = FreeKey],
     ret |-> nodes[nodeRemoved].value,
     pos |-> IF pred = NULL THEN "head" ELSE "inner"]

\* faulty variant: bindingsCount is decremented although no binding has
\* the key
SymTable_remove_CountsAbsent(tab, nodes, keys, pcKey) ==
    LET bucketIndex == BucketOf(tab, pcKey)
        curr == tab.buckets[bucketIndex + 1]
        absent == [tab |-> [tab EXCEPT !.bindingsCount = @ - 1],
                   nodes |-> nodes, keys |-> keys,
                   ret |-> NULL, pos |-> "absent"]
    IN  IF curr = NULL THEN absent
        ELSE IF KeyOf(nodes, keys, curr) = pcKey
        THEN Unlink(tab, nodes, keys, bucketIndex, NULL, curr)
        ELSE LET pred == FindPred(nodes, keys, curr, pcKey)
             IN  IF pred = NULL THEN absent
                 ELSE Unlink(tab, nodes, keys, bucketIndex, pred,
                             nodes[pred].next)

\* pos: where the removed binding was ("head", "inner"), "absent" if none
SymTable_remove(tab, nodes, keys, pcKey) ==
    LET bucketIndex == BucketOf(tab, pcKey)
        curr == tab.buckets[bucketIndex + 1]
        absent == [tab |-> tab, nodes |-> nodes, keys |-> keys,
                   ret |-> NULL, pos |-> "absent"]
    IN  IF curr = NULL THEN absent
        ELSE IF KeyOf(nodes, keys, curr) = pcKey
        THEN Unlink(tab, nodes, keys, bucketIndex, NULL, curr)
        ELSE LET pred == FindPred(nodes, keys, curr, pcKey)
             IN  IF pred = NULL THEN absent
                 ELSE Unlink(tab, nodes, keys, bucketIndex, pred,
                             nodes[pred].next)

\* the calls (*pfApply)(curr->key, curr->value, pvExtra) of one chain, in
\* order, as <<key bytes, value>> pairs
RECURSIVE MapChain(_, _, _)
MapChain(nodes, keys, curr) ==
    IF curr = NULL THEN <<>>
    ELSE <<<<KeyOf(nodes, keys, curr), nodes[curr].value>>>>
         \o MapChain(nodes, keys, nodes[curr].next)

RECURSIVE MapFrom(_, _, _, _)
MapFrom(tab, nodes, keys, i) ==
    IF i >= BucketCountAt(tab.bucketSizeIndex) THEN <<>>
    ELSE MapChain(nodes, keys, tab.buckets[i + 1])
         \o MapFrom(tab, nodes, keys, i + 1)

\* faulty variant: the loop over the buckets starts at 1
SymTable_map_SkipsBucket0(tab, nodes, keys) == MapFrom(tab, nodes, keys, 1)

SymTable_map(tab, nodes, keys) == MapFrom(tab, nodes, keys, 0)

\* the free calls of SymTable_free for one chain, in order: for each
\* binding free(curr->key), then free(curr)
RECURSIVE FreeChain(_, _)
FreeChain(nodes, curr) ==
    IF curr = NULL THEN <<>>
    ELSE <<Ev("free", "key", nodes[curr].key), Ev("free", "node", curr)>>
         \o FreeChain(nodes, nodes[curr].next)

RECURSIVE FreeFrom(_, _, _)
FreeFrom(tab, nodes, i) ==
    IF i >= BucketCountAt(tab.bucketSizeIndex) THEN <<>>
    ELSE FreeChain(nodes, tab.buckets[i + 1]) \o FreeFrom(tab, nodes, i + 1)

\* faulty variant: the bucket array is not freed
SymTable_free_KeepsBuckets(tab, nodes) ==
    FreeFrom(tab, nodes, 0) \o <<Ev("free", "record", NULL)>>

\* all free calls of SymTable_free, in order
SymTable_free(tab, nodes) ==
    FreeFrom(tab, nodes, 0)
        \o <<Ev("free", "buckets", NULL), Ev("free", "record", NULL)>>

\* the blocks of one arena freed by the calls of mem
FreedAddrs(mem, kind) ==
    {mem[i][3] : i \in {j \in 1..Len(mem) : mem[j][2] = kind}}

\* SymTable_new: the record returned (NoTable for NULL) and the mallocs,
\* callocs and frees made
\* faulty variant: the record is not freed when calloc fails
SymTable_new_LeaksRecord(mallocOK, callocOK) ==
    IF ~mallocOK
    THEN [tab |-> NoTable, fail |-> "record", mem |-> <<>>]
    ELSE IF ~callocOK
    THEN [tab |-> NoTable, fail |-> "buckets",
          mem |-> <<Ev("alloc", "record", NULL)>>]
    ELSE [tab |-> [live |-> TRUE,
                   buckets |-> [j \in 1..BucketCountAt(0) |-> NULL],
                   bindingsCount |-> 0,
                   bucketSizeIndex |-> 0],
          fail |-> "",
          mem |-> <<Ev("alloc", "record", NULL),
                    Ev("alloc", "buckets", NULL)>>]

\* faulty variant: bucketSizeIndex starts at 1
SymTable_new_StartsAtOne(mallocOK, callocOK) ==
    IF ~mallocOK
    THEN [tab |-> NoTable, fail |-> "record", mem |-> <<>>]
    ELSE IF ~callocOK
    THEN [tab |-> NoTable, fail |-> "buckets",
          mem |-> <<Ev("alloc", "record", NULL),
                    Ev("free", "record", NULL)>>]
    ELSE [tab |-> [live |-> TRUE,
                   buckets |-> [j \in 1..BucketCountAt(1) |-> NULL],
                   bindingsCount |-> 0,
                   bucketSizeIndex |-> 1],
          fail |-> "",
          mem |-> <<Ev("alloc", "record", NULL),
                    Ev("alloc", "buckets", NULL)>>]

SymTable_new(mallocOK, callocOK) ==
    IF ~mallocOK
    THEN [tab |-> NoTable, fail |-> "record", mem |-> <<>>]
    ELSE IF ~callocOK
    THEN [tab |-> NoTable, fail |-> "buckets",
          mem |-> <<Ev("alloc", "record", NULL),
                    Ev("free", "record", NULL)>>]
    ELSE [tab |-> [live |-> TRUE,
                   buckets |-> [j \in 1..BucketCountAt(0) |-> NULL],
                   bindingsCount |-> 0,
                   bucketSizeIndex |-> 0],
          fail |-> "",
          mem |-> <<Ev("alloc", "record", NULL),
                    Ev("alloc", "buckets", NULL)>>]

\* ------------------------------------------------------------------------
\* The linked-list variant (symtablelist.c): the list from
\* oSymTable->first is the sequence of its <<key bytes, value>> bindings,
\* head first
\* ------------------------------------------------------------------------

NoList == [live |-> FALSE, first |-> <<>>]

\* how a call ends: it returns ret, or it does not return (a failed assert
\* aborts the program, a read through a null pointer may end it)
Returned(ret) == [completed |-> TRUE, ret |-> ret]

NotReturned == [completed |-> FALSE, ret |-> 0]

\* what the read of curr->key with curr == NULL can lead to: the program
\* ends, or the call goes on and returns some pointer
NullReadOutcomes == {NotReturned} \cup {Returned(v) : v \in Values}

\* the index of the first binding with key pcKey, 0 if there is none
ListFind(first, pcKey) ==
    IF \E i \in 1..Len(first) : first[i][1] = pcKey
    THEN CHOOSE i \in 1..Len(first) :
            /\ first[i][1] = pcKey
            /\ \A j \in 1..(i - 1) : first[j][1] # pcKey
    ELSE 0

SymTableList_new == [live |-> TRUE, first |-> <<>>]

SymTableList_getLength(tab) == Len(tab.first)

SymTableList_put(tab, pcKey, pvValue) ==
    IF pvValue = NULL THEN [tab |-> tab, out |-> NotReturned]
    ELSE IF ListFind(tab.first, pcKey) # 0
    THEN [tab |-> tab, out |-> Returned(0)]
    ELSE [tab |-> [tab EXCEPT !.first = <<<<pcKey, pvValue>>>> \o @],
          out |-> Returned(1)]

SymTableList_replace(tab, pcKey, pvValue) ==
    LET i == ListFind(tab.first, pcKey)
    IN  IF pvValue = NULL THEN [tab |-> tab, out |-> NotReturned]
        ELSE IF i # 0
        THEN [tab |-> [tab EXCEPT !.first[i] = <<pcKey, pvValue>>],
              out |-> Returned(tab.first[i][2])]
        ELSE [tab |-> tab, out |-> Returned(NULL)]

SymTableList_contains(tab, pcKey) ==
    IF ListFind(tab.first, pcKey) # 0 THEN 1 ELSE 0

SymTableList_get(tab, pcKey) ==
    LET i == ListFind(tab.first, pcKey)
    IN  IF i # 0 THEN tab.first[i][2] ELSE NULL

\* nullRead: what the read of curr->key leads to when the list is empty
SymTableList_remove(tab, pcKey, nullRead) ==
    LET i == ListFind(tab.first, pcKey)
    IN  IF tab.first = <<>> THEN [tab |-> tab, out |-> nullRead]
        ELSE IF i # 0
        THEN [tab |-> [tab EXCEPT !.first =
                          SubSeq(@, 1, i - 1) \o SubSeq(@, i + 1, Len(@))],
              out |-> Returned(tab.first[i][2])]
        ELSE [tab |-> tab, out |-> Returned(NULL)]

\* ------------------------------------------------------------------------
\* Actions: one per interface function
\* ------------------------------------------------------------------------

\* the outcome of a malloc or calloc is an input of SymTable_put only if
\* the call is made: calloc when an expansion is warranted, malloc of the
\* node when the key is not bound, malloc of the key copy when the node
\* was allocated; an outcome that is not used is fixed to TRUE
AllocCalls(tab, nodes, keys, pcKey, callocOK, nodeOK, keyOK) ==
    IF SymTable_contains(tab, nodes, keys, pcKey) = 1
    THEN callocOK /\ nodeOK /\ keyOK
    ELSE /\ ~nodeOK => keyOK
         /\ ~ExpandWarranted(tab) => callocOK
         /\ nodeOK => HasFree(nodes)
         /\ (nodeOK /\ keyOK) => HasFree(keys)

\* no second table
NoTwin ==
    [tab |-> NoTable,
     nodes |-> [a \in NodeAddrs |-> FreeNode],
     keys |-> [a \in KeyAddrs |->
                 IF a = CallerAddr THEN [live |-> TRUE, bytes |-> <<>>]
                 ELSE FreeKey],
     ret |-> 0]

Init ==
    /\ oSymTable = NoTable
    /\ nodeMem = [a \in NodeAddrs |-> FreeNode]
    /\ keyMem = [a \in KeyAddrs |->
                    IF a = CallerAddr THEN [live |-> TRUE, bytes |-> <<>>]
                    ELSE FreeKey]
    /\ blocks = [record |-> 0, buckets |-> 0]
    /\ lastOp = Op("init", <<>>, NULL, 0, "none", "", "", <<>>)
    /\ netPuts = 0
    /\ oSymTableList = NoList
    /\ listRet = Returned(0)
    /\ twin = NoTwin

\* SymTable_new: ret 1 stands for the non-NULL handle
New ==
    /\ UNCHANGED <<listVars, twin>>
    /\ ~oSymTable.live
    /\ \E mallocOK, callocOK \in BOOLEAN :
          LET r == SymTable_new(mallocOK, callocOK)
          IN  /\ oSymTable' = r.tab
              /\ blocks' = ApplyMem(blocks, r.mem)
              /\ lastOp' = Op("new", <<>>, NULL,
                              IF r.tab.live THEN 1 ELSE NULL, "none",
                              r.fail, "", <<>>)
    /\ netPuts' = 0
    /\ UNCHANGED <<nodeMem, keyMem>>

\* SymTable_free
Free ==
    /\ UNCHANGED <<listVars, twin>>
    /\ oSymTable.live
    /\ LET mem == SymTable_free(oSymTable, nodeMem)
       IN  /\ nodeMem' = [a \in NodeAddrs |->
                            IF a \in FreedAddrs(mem, "node")
                            THEN FreeNode ELSE nodeMem[a]]
           /\ keyMem' = [a \in KeyAddrs |->
                            IF a \in FreedAddrs(mem, "key")
                            THEN FreeKey ELSE keyMem[a]]
           /\ blocks' = ApplyMem(blocks, mem)
           /\ lastOp' = Op("free", <<>>, NULL, 0, "none", "", "", mem)
    /\ oSymTable' = NoTable
    /\ UNCHANGED netPuts

GetLength ==
    /\ UNCHANGED <<listVars, twin>>
    /\ oSymTable.live
    /\ lastOp' = Op("getLength", <<>>, NULL, SymTable_getLength(oSymTable),
                    "none", "", "", <<>>)
    /\ UNCHANGED <<oSymTable, nodeMem, keyMem, blocks, netPuts>>

Put ==
    /\ UNCHANGED <<listVars, twin>>
    /\ oSymTable.live
    /\ \E pcKey \in Keys, pvValue \in Values,
          callocOK, nodeOK, keyOK \in BOOLEAN :
          /\ AllocCalls(oSymTable, nodeMem, keyMem, pcKey, callocOK,
                        nodeOK, keyOK)
          /\ LET r == SymTable_put(oSymTable, nodeMem, keyMem, pcKey,
                                   pvValue, callocOK, nodeOK, keyOK)
             IN  /\ oSymTable' = r.tab
                 /\ nodeMem' = r.nodes
                 /\ keyMem' = r.keys
                 /\ blocks' = ApplyMem(blocks, r.mem)
                 /\ lastOp' = Op("put", pcKey, pvValue, r.ret, r.grow,
                                 r.fail, "", r.mem)
                 /\ netPuts' = netPuts + r.ret

Replace ==
    /\ UNCHANGED <<listVars, twin>>
    /\ oSymTable.live
    /\ \E pcKey \in Keys, pvValue \in Values :
          LET r == SymTable_replace(oSymTable, nodeMem, keyMem, pcKey,
                                    pvValue)
          IN  /\ nodeMem' = r.nodes
              /\ lastOp' = Op("replace", pcKey, pvValue, r.ret, "none", "",
                              "", <<>>)
    /\ UNCHANGED <<oSymTable, keyMem, blocks, netPuts>>

Contains ==
    /\ UNCHANGED <<listVars, twin>>
    /\ oSymTable.live
    /\ \E pcKey \in Keys :
          lastOp' = Op("contains", pcKey, NULL,
                       SymTable_contains(oSymTable, nodeMem, keyMem, pcKey),
                       "none", "", "", <<>>)
    /\ UNCHANGED <<oSymTable, nodeMem, keyMem, blocks, netPuts>>

Get ==
    /\ UNCHANGED <<listVars, twin>>
    /\ oSymTable.live
    /\ \E pcKey \in Keys :
          lastOp' = Op("get", pcKey, NULL,
                       SymTable_get(oSymTable, nodeMem, keyMem, pcKey),
                       "none", "", "", <<>>)
    /\ UNCHANGED <<oSymTable, nodeMem, keyMem, blocks, netPuts>>

Remove ==
    /\ UNCHANGED <<listVars, twin>>
    /\ oSymTable.live
    /\ \E pcKey \in Keys :
          LET r == SymTable_remove(oSymTable, nodeMem, keyMem, pcKey)
              wasBound == SymTable_contains(oSymTable, nodeMem, keyMem,
                                            pcKey)
          IN  /\ oSymTable' = r.tab
              /\ nodeMem' = r.nodes
              /\ keyMem' = r.keys
              /\ lastOp' = Op("remove", pcKey, NULL, r.ret, "none", "",
                              r.pos, <<>>)
              /\ netPuts' = netPuts - wasBound
    /\ UNCHANGED blocks

Map ==
    /\ UNCHANGED <<listVars, twin>>
    /\ oSymTable.live
    /\ lastOp' = Op("map", <<>>, NULL, 0, "none", "", "",
                    SymTable_map(oSymTable, nodeMem, keyMem))
    /\ UNCHANGED <<oSymTable, nodeMem, keyMem, blocks, netPuts>>

Next ==
    \/ New
    \/ Free
    \/ GetLength
    \/ Put
    \/ Replace
    \/ Contains
    \/ Get
    \/ Remove
    \/ Map

Spec == Init /\ [][Next]_vars

\* The caller and its key buffer: the caller writes a key into its buffer
\* and calls SymTable_put with the address of the buffer, which reads the
\* key from there; the mallocs of the node and of the key copy succeed
PutFromBuffer ==
    /\ UNCHANGED <<listVars, twin>>
    /\ oSymTable.live
    /\ \E bytes \in Keys, pvValue \in Values, callocOK \in BOOLEAN :
          /\ AllocCalls(oSymTable, nodeMem, keyMem, bytes, callocOK, TRUE,
                        TRUE)
          /\ LET buf == [keyMem EXCEPT ![CallerAddr] =
                                     [live |-> TRUE, bytes |-> bytes]]
                 pcKey == buf[CallerAddr].bytes
                 r == SymTable_put(oSymTable, nodeMem, buf, pcKey, pvValue,
                                   callocOK, TRUE, TRUE)
             IN  /\ oSymTable' = r.tab
                 /\ nodeMem' = r.nodes
                 /\ keyMem' = r.keys
                 /\ blocks' = ApplyMem(blocks, r.mem)
                 /\ lastOp' = Op("put", pcKey, pvValue, r.ret, r.grow,
                                 r.fail, "", r.mem)
                 /\ netPuts' = netPuts + r.ret

\* between two calls the caller overwrites its buffer or frees it
Clobber ==
    /\ UNCHANGED <<listVars, twin>>
    /\ keyMem[CallerAddr].live
    /\ \E new \in {[live |-> TRUE, bytes |-> b] : b \in Keys}
                   \cup {FreeKey} :
          /\ new # keyMem[CallerAddr]
          /\ keyMem' = [keyMem EXCEPT ![CallerAddr] = new]
          /\ lastOp' = Op("clobber", new.bytes, NULL, 0, "none", "", "",
                          <<>>)
    /\ UNCHANGED <<oSymTable, nodeMem, blocks, netPuts>>

NextAlias ==
    \/ New
    \/ Free
    \/ GetLength
    \/ PutFromBuffer
    \/ Clobber
    \/ Replace
    \/ Contains
    \/ Get
    \/ Remove
    \/ Map

SpecAlias == Init /\ [][NextAlias]_vars

\* A client with more keys than the last capacity has buckets: it puts and
\* removes them with one value, and no allocation of a Put fails
PutMany ==
    /\ UNCHANGED <<listVars, twin>>
    /\ oSymTable.live
    /\ \E pcKey \in ManyKeys :
          /\ AllocCalls(oSymTable, nodeMem, keyMem, pcKey, TRUE, TRUE, TRUE)
          /\ LET r == SymTable_put(oSymTable, nodeMem, keyMem, pcKey, 1,
                                   TRUE, TRUE, TRUE)
             IN  /\ oSymTable' = r.tab
                 /\ nodeMem' = r.nodes
                 /\ keyMem' = r.keys
                 /\ blocks' = ApplyMem(blocks, r.mem)
                 /\ lastOp' = Op("put", pcKey, 1, r.ret, r.grow, r.fail, "",
                                 r.mem)
                 /\ netPuts' = netPuts + r.ret

RemoveMany ==
    /\ UNCHANGED <<listVars, twin>>
    /\ oSymTable.live
    /\ \E pcKey \in ManyKeys :
          LET r == SymTable_remove(oSymTable, nodeMem, keyMem, pcKey)
              wasBound == SymTable_contains(oSymTable, nodeMem, keyMem,
                                            pcKey)
          IN  /\ oSymTable' = r.tab
              /\ nodeMem' = r.nodes
              /\ keyMem' = r.keys
              /\ lastOp' = Op("remove", pcKey, NULL, r.ret, "none", "",
                              r.pos, <<>>)
              /\ netPuts' = netPuts - wasBound
    /\ UNCHANGED blocks

NextMax ==
    \/ New
    \/ PutMany
    \/ RemoveMany

SpecMax == Init /\ [][NextMax]_vars

\* SymTable_hash on its own: the arguments are drawn first (the key as
\* the bytes in memory, kept in visits, and as the chars the build reads
\* from them, the bucket count in value), then the function is applied
KeysUpTo(n) ==
    UNION {[1..len -> HashBytes] : len \in 0..n}

InitHash ==
    /\ oSymTable = NoTable
    /\ nodeMem = [a \in NodeAddrs |-> FreeNode]
    /\ keyMem = [a \in KeyAddrs |->
                    IF a = CallerAddr THEN [live |-> TRUE, bytes |-> <<>>]
                    ELSE FreeKey]
    /\ blocks = [record |-> 0, buckets |-> 0]
    /\ netPuts = 0
    /\ oSymTableList = NoList
    /\ listRet = Returned(0)
    /\ twin = NoTwin
    /\ \E bytes \in KeysUpTo(MaxKeyLen), uBucketCount \in HashBucketCounts,
          charSigned \in BOOLEAN :
          lastOp = Op("hashArgs",
                      [u \in 1..Len(bytes) |->
                          CharOfByte(bytes[u], charSigned)],
                      uBucketCount, 0, "none", "", "", bytes)

HashCall ==
    /\ lastOp.name = "hashArgs"
    /\ lastOp' = [lastOp EXCEPT !.name = "hash",
                                !.ret = SymTable_hash(lastOp.key,
                                                      lastOp.value)]
    /\ UNCHANGED <<oSymTable, nodeMem, keyMem, blocks, netPuts, listVars,
                   twin>>

NextHash == HashCall

SpecHash == InitHash /\ [][NextHash]_vars

\* The two variants side by side: one client makes the same call on a table
\* of each variant; no allocation fails. After a call of the linked-list
\* variant that did not return there is no further call.
BothNew ==
    /\ UNCHANGED twin
    /\ ~oSymTable.live
    /\ listRet.completed
    /\ LET r == SymTable_new(TRUE, TRUE)
       IN  /\ oSymTable' = r.tab
           /\ blocks' = ApplyMem(blocks, r.mem)
           /\ lastOp' = Op("new", <<>>, NULL, 1, "none", r.fail, "", <<>>)
    /\ netPuts' = 0
    /\ oSymTableList' = SymTableList_new
    /\ listRet' = Returned(1)
    /\ UNCHANGED <<nodeMem, keyMem>>

BothGetLength ==
    /\ UNCHANGED twin
    /\ oSymTable.live
    /\ listRet.completed
    /\ lastOp' = Op("getLength", <<>>, NULL, SymTable_getLength(oSymTable),
                    "none", "", "", <<>>)
    /\ listRet' = Returned(SymTableList_getLength(oSymTableList))
    /\ UNCHANGED <<oSymTable, nodeMem, keyMem, blocks, netPuts,
                   oSymTableList>>

BothPut ==
    /\ UNCHANGED twin
    /\ oSymTable.live
    /\ listRet.completed
    /\ HasFree(nodeMem)
    /\ HasFree(keyMem)
    /\ \E pcKey \in Keys, pvValue \in Values :
          LET r == SymTable_put(oSymTable, nodeMem, keyMem, pcKey, pvValue,
                                TRUE, TRUE, TRUE)
              l == SymTableList_put(oSymTableList, pcKey, pvValue)
          IN  /\ oSymTable' = r.tab
              /\ nodeMem' = r.nodes
              /\ keyMem' = r.keys
              /\ blocks' = ApplyMem(blocks, r.mem)
              /\ lastOp' = Op("put", pcKey, pvValue, r.ret, r.grow, r.fail,
                              "", r.mem)
              /\ netPuts' = netPuts + r.ret
              /\ oSymTableList' = l.tab
              /\ listRet' = l.out

BothReplace ==
    /\ UNCHANGED twin
    /\ oSymTable.live
    /\ listRet.completed
    /\ \E pcKey \in Keys, pvValue \in Values :
          LET r == SymTable_replace(oSymTable, nodeMem, keyMem, pcKey,
                                    pvValue)
              l == SymTableList_replace(oSymTableList, pcKey, pvValue)
          IN  /\ nodeMem' = r.nodes
              /\ lastOp' = Op("replace", pcKey, pvValue, r.ret, "none", "",
                              "", <<>>)
              /\ oSymTableList' = l.tab
              /\ listRet' = l.out
    /\ UNCHANGED <<oSymTable, keyMem, blocks, netPuts>>

BothContains ==
    /\ UNCHANGED twin
    /\ oSymTable.live
    /\ listRet.completed
    /\ \E pcKey \in Keys :
          /\ lastOp' = Op("contains", pcKey, NULL,
                          SymTable_contains(oSymTable, nodeMem, keyMem,
                                            pcKey),
                          "none", "", "", <<>>)
          /\ listRet' = Returned(SymTableList_contains(oSymTableList,
                                                       pcKey))
    /\ UNCHANGED <<oSymTable, nodeMem, keyMem, blocks, netPuts,
                   oSymTableList>>

BothGet ==
    /\ UNCHANGED twin
    /\ oSymTable.live
    /\ listRet.completed
    /\ \E pcKey \in Keys :
          /\ lastOp' = Op("get", pcKey, NULL,
                          SymTable_get(oSymTable, nodeMem, keyMem, pcKey),
                          "none", "", "", <<>>)
          /\ listRet' = Returned(SymTableList_get(oSymTableList, pcKey))
    /\ UNCHANGED <<oSymTable, nodeMem, keyMem, blocks, netPuts,
                   oSymTableList>>

BothRemove ==
    /\ UNCHANGED twin
    /\ oSymTable.live
    /\ listRet.completed
    /\ \E pcKey \in Keys, nullRead \in NullReadOutcomes :
          LET r == SymTable_remove(oSymTable, nodeMem, keyMem, pcKey)
              wasBound == SymTable_contains(oSymTable, nodeMem, keyMem,
                                            pcKey)
              l == SymTableList_remove(oSymTableList, pcKey, nullRead)
          IN  /\ oSymTable' = r.tab
              /\ nodeMem' = r.nodes
              /\ keyMem' = r.keys
              /\ lastOp' = Op("remove", pcKey, NULL, r.ret, "none", "",
                              r.pos, <<>>)
              /\ netPuts' = netPuts - wasBound
              /\ oSymTableList' = l.tab
              /\ listRet' = l.out
    /\ UNCHANGED blocks

NextBoth ==
    \/ BothNew
    \/ BothGetLength
    \/ BothPut
    \/ BothReplace
    \/ BothContains
    \/ BothGet
    \/ BothRemove

SpecBoth == Init /\ [][NextBoth]_vars

\* ------------------------------------------------------------------------
\* Observations of a state
\* ------------------------------------------------------------------------

\* all bindings reachable from the bucket array, in traversal order
Bindings == SymTable_map(oSymTable, nodeMem, keyMem)

\* key -> value pairs held by the container
Mapping == {Bindings[i] : i \in 1..Len(Bindings)}

ContainsNow(k) == SymTable_contains(oSymTable, nodeMem, keyMem, k)

GetNow(k) == SymTable_get(oSymTable, nodeMem, keyMem, k)

\* ------------------------------------------------------------------------
\* Properties
\* ------------------------------------------------------------------------

\* C1: in every reachable state no two bindings reachable from the bucket
\* array have equal keys.
C1_UniqueKeys ==
    oSymTable.live =>
        \A i, j \in 1..Len(Bindings) :
            i # j => Bindings[i][1] # Bindings[j][1]

\* a full table that grew twice, right after a Put of a bound key was
\* rejected
C1_Witness ==
    /\ oSymTable.live
    /\ Len(Bindings) = Cardinality(Keys)
    /\ oSymTable.bucketSizeIndex = BUCKET_COUNTS_LEN - 1
    /\ lastOp.name = "put"
    /\ lastOp.fail = "dup"

\* C2: a Put of a key that is already bound returns 0 and changes nothing:
\* the record, the bucket array, every node and key copy are as before, no
\* expansion is attempted and nothing is allocated.
C2_DuplicatePutUnchanged ==
    [][(lastOp'.name = "put" /\ oSymTable.live
            /\ ContainsNow(lastOp'.key) = 1)
        => /\ lastOp'.ret = 0
           /\ lastOp'.fail = "dup"
           /\ lastOp'.grow = "none"
           /\ oSymTable' = oSymTable
           /\ nodeMem' = nodeMem
           /\ keyMem' = keyMem]_vars

\* a rejected Put of a bound key that offered another value, in a state
\* where a Put of a new key would have expanded the table
C2_Witness ==
    /\ oSymTable.live
    /\ lastOp.name = "put"
    /\ lastOp.fail = "dup"
    /\ lastOp.value # GetNow(lastOp.key)
    /\ ExpandWarranted(oSymTable)

\* C3: after a Put(k, v) that returned 1, Get(k) = v and Contains(k) = 1,
\* with and without a growth step.
C3_PutThenGet ==
    (lastOp.name = "put" /\ lastOp.ret = 1)
        => /\ GetNow(lastOp.key) = lastOp.value
           /\ ContainsNow(lastOp.key) = 1

\* a successful Put that expanded the table and moved the key to another
\* bucket than the one it had under the old capacity
C3_Witness ==
    /\ lastOp.name = "put"
    /\ lastOp.ret = 1
    /\ lastOp.grow = "done"
    /\ lastOp.value # NULL
    /\ BucketOf(oSymTable, lastOp.key)
         # Hash(lastOp.key, BucketCountAt(oSymTable.bucketSizeIndex - 1))

\* C4: after Remove(k), Get(k) = NULL and Contains(k) = 0, whether k was
\* the head of its chain, inside it, or absent.
C4_RemoveThenGet ==
    lastOp.name = "remove"
        => /\ GetNow(lastOp.key) = NULL
           /\ ContainsNow(lastOp.key) = 0

\* a binding with a non-NULL value was removed from inside a chain
C4_Witness ==
    /\ lastOp.name = "remove"
    /\ lastOp.pos = "inner"
    /\ lastOp.ret # NULL

\* C5: GetLength is the number of Puts that returned 1 minus the number of
\* Removes that removed a binding, and a Replace, Get, Contains, Map,
\* GetLength, rejected Put or Remove of an absent key does not change it.
C5_CountInvariant ==
    [][/\ oSymTable'.live => SymTable_getLength(oSymTable') = netPuts'
       /\ (/\ oSymTable.live
           /\ \/ lastOp'.name \in {"replace", "get", "contains", "map",
                                   "getLength"}
              \/ lastOp'.name = "put" /\ lastOp'.ret = 0
              \/ lastOp'.name = "remove" /\ lastOp'.pos = "absent")
          => SymTable_getLength(oSymTable')
               = SymTable_getLength(oSymTable)]_vars

\* a Remove of a bound key after several successful Puts
C5_Witness ==
    /\ oSymTable.live
    /\ lastOp.name = "remove"
    /\ lastOp.pos # "absent"
    /\ netPuts = Cardinality(Keys) - 1
    /\ SymTable_getLength(oSymTable) = netPuts

\* C6: the growth step of a Put keeps the key -> value pairs exactly (none
\* lost, duplicated or altered) before the new binding is linked; after
\* the Put every other key has the value it had and GetLength counts the
\* keys inserted.
C6_GrowthPreservesContent ==
    [][(lastOp'.name = "put" /\ lastOp'.grow = "done")
        => LET ex == SymTable_tryExpand(oSymTable, nodeMem, keyMem, TRUE)
               grown == SymTable_map(ex.tab, ex.nodes, keyMem)
           IN  /\ ex.grow = "done"
               /\ {grown[i] : i \in 1..Len(grown)} = Mapping
               /\ Len(grown) = Len(Bindings)
               /\ \A k \in Keys \ {lastOp'.key} :
                     /\ GetNow(k)' = GetNow(k)
                     /\ ContainsNow(k)' = ContainsNow(k)
               /\ lastOp'.ret = 1 =>
                     /\ Mapping' = Mapping
                           \cup {<<lastOp'.key, lastOp'.value>>}
                     /\ SymTable_getLength(oSymTable')
                           = Len(Bindings) + 1]_vars

\* a Put that expanded a table of at least two bindings and inserted
C6_Witness ==
    /\ lastOp.name = "put"
    /\ lastOp.grow = "done"
    /\ lastOp.ret = 1
    /\ Len(Bindings) >= 3
    /\ SymTable_getLength(oSymTable) = Len(Bindings)

\* C7: a Put that fails on the node or key-copy allocation leaves the
\* container exactly as it was (capacity index, bucket array, chains,
\* bindingsCount): a grown-but-not-inserted container is never observable.
C7_FailedPutUnchanged ==
    [][(lastOp'.name = "put" /\ lastOp'.fail \in {"node", "key"})
        => /\ lastOp'.ret = 0
           /\ oSymTable' = oSymTable
           /\ nodeMem' = nodeMem
           /\ keyMem' = keyMem]_vars

\* C8: a Put that returns 0 leaves the key -> value pairs and GetLength as
\* they were.
C8_RejectedPutKeepsBindings ==
    [][(lastOp'.name = "put" /\ lastOp'.ret = 0)
        => /\ Mapping' = Mapping
           /\ SymTable_getLength(oSymTable')
                = SymTable_getLength(oSymTable)]_vars

\* a Put rejected for lack of memory after it had expanded a table that
\* holds bindings
C8_Witness ==
    /\ lastOp.name = "put"
    /\ lastOp.ret = 0
    /\ lastOp.fail \in {"node", "key"}
    /\ lastOp.grow = "done"
    /\ Len(Bindings) >= 2

\* C9: when the allocation of the larger bucket array fails, the capacity
\* index and the bucket array stay and the Put goes on: it is rejected only
\* if the node or key-copy allocation fails too, otherwise the binding is
\* linked at the head of its bucket under the current capacity and Put
\* returns 1.
C9_GrowthFailureNotFatal ==
    [][(lastOp'.name = "put" /\ lastOp'.grow = "failed")
        => /\ oSymTable'.bucketSizeIndex = oSymTable.bucketSizeIndex
           /\ \/ /\ lastOp'.fail \in {"node", "key"}
                 /\ lastOp'.ret = 0
                 /\ oSymTable' = oSymTable
                 /\ nodeMem' = nodeMem
              \/ /\ lastOp'.fail = ""
                 /\ lastOp'.ret = 1
                 /\ LET slot == BucketOf(oSymTable, lastOp'.key) + 1
                        head == oSymTable'.buckets[slot]
                    IN  /\ oSymTable' =
                              [oSymTable EXCEPT
                                 !.buckets[slot] = head,
                                 !.bindingsCount = @ + 1]
                        /\ head # NULL
                        /\ ~nodeMem[head].live
                        /\ KeyOf(nodeMem', keyMem', head) = lastOp'.key
                        /\ nodeMem'[head].value = lastOp'.value
                        /\ nodeMem'[head].next = oSymTable.buckets[slot]
                        /\ \A a \in NodeAddrs \ {head} :
                              nodeMem'[a] = nodeMem[a]]_vars

\* a Put inserted although the larger bucket array could not be allocated:
\* the table now holds more bindings than buckets below the last capacity
C9_Witness ==
    /\ lastOp.name = "put"
    /\ lastOp.grow = "failed"
    /\ lastOp.ret = 1
    /\ oSymTable.bucketSizeIndex < BUCKET_COUNTS_LEN - 1
    /\ Len(Bindings) > BucketCountAt(oSymTable.bucketSizeIndex)

\* C10 as stated: a Put rejected as duplicate and a Put rejected for an
\* allocation failure report different results.
C10_DistinctRejections ==
    [][(/\ lastOp.name = "put" /\ lastOp.fail = "dup"
        /\ lastOp'.name = "put" /\ lastOp'.fail \in {"node", "key"})
        => lastOp'.ret # lastOp.ret]_vars

\* C10 amended: Put returns 0 for both rejection causes (duplicate key and
\* allocation failure) and 1 exactly when it inserted.
C10_RejectionsBothZero ==
    lastOp.name = "put"
        => /\ lastOp.ret \in {0, 1}
           /\ lastOp.fail \in {"dup", "node", "key"} <=> lastOp.ret = 0
           /\ lastOp.fail = "" <=> lastOp.ret = 1

\* a Put rejected for an allocation failure on a table in which a Put of a
\* bound key would be rejected as duplicate
C10_Witness ==
    /\ lastOp.name = "put"
    /\ lastOp.fail = "key"
    /\ lastOp.ret = 0
    /\ Len(Bindings) >= 1

\* the blocks of an arena that are allocated
LiveAddrs(mem) == {a \in NodeAddrs : mem[a].live}

\* the node that holds key k, searched in every chain (NULL if none)
NodeOfKey(k) ==
    IF \E n \in LiveAddrs(nodeMem) : KeyOf(nodeMem, keyMem, n) = k
    THEN CHOOSE n \in LiveAddrs(nodeMem) : KeyOf(nodeMem, keyMem, n) = k
    ELSE NULL

\* C11: Replace(k, v) on a bound key returns the old value and makes
\* Get(k) = v; the record, the bucket array, the links, every key copy,
\* every other value and the set of allocated blocks are unchanged.
C11_ReplaceFrame ==
    [][\A k \in Keys :
        (lastOp'.name = "replace" /\ lastOp'.key = k /\ ContainsNow(k) = 1)
        => /\ lastOp'.ret = GetNow(k)
           /\ GetNow(k)' = lastOp'.value
           /\ oSymTable' = oSymTable
           /\ keyMem' = keyMem
           /\ blocks' = blocks
           /\ nodeMem' = [nodeMem EXCEPT ![NodeOfKey(k)].value = lastOp'.value]
           /\ \A j \in Keys \ {k} :
                 /\ GetNow(j)' = GetNow(j)
                 /\ ContainsNow(j)' = ContainsNow(j)]_vars

\* a Replace changed the value of a binding that is not the head of its
\* chain, while other bindings exist
C11_Witness ==
    /\ lastOp.name = "replace"
    /\ lastOp.ret # NULL
    /\ lastOp.value # lastOp.ret
    /\ ContainsNow(lastOp.key) = 1
    /\ oSymTable.buckets[BucketOf(oSymTable, lastOp.key) + 1]
         # NodeOfKey(lastOp.key)
    /\ Len(Bindings) = Cardinality(Keys)

\* the bindings of the chain of bucket slot i (1-based), head first
Chain(i) == MapChain(nodeMem, keyMem, oSymTable.buckets[i])

\* a chain without the binding of key k
Without(chain, k) == SelectSeq(chain, LAMBDA b : b[1] # k)

\* C12: Remove(k) on a bound key returns its value, removes exactly that
\* binding (head or not) and decrements bindingsCount; every chain keeps
\* its other bindings, with their keys and values, in the same order, and
\* the capacity index is unchanged.
C12_RemoveBound ==
    [][\A k \in Keys :
        (lastOp'.name = "remove" /\ lastOp'.key = k /\ ContainsNow(k) = 1)
        => /\ lastOp'.ret = GetNow(k)
           /\ lastOp'.pos \in {"head", "inner"}
           /\ SymTable_getLength(oSymTable')
                = SymTable_getLength(oSymTable) - 1
           /\ oSymTable'.bucketSizeIndex = oSymTable.bucketSizeIndex
           /\ Len(oSymTable'.buckets) = Len(oSymTable.buckets)
           /\ \A i \in 1..Len(oSymTable.buckets) :
                 Chain(i)' = Without(Chain(i), k)
           /\ Len(Bindings') = Len(Bindings) - 1
           /\ LiveAddrs(nodeMem') = LiveAddrs(nodeMem) \ {NodeOfKey(k)}
           /\ blocks' = blocks]_vars

\* a binding was removed from inside a chain whose two other bindings are
\* still there
C12_Witness ==
    /\ lastOp.name = "remove"
    /\ lastOp.pos = "inner"
    /\ SymTable_getLength(oSymTable) = 2
    /\ Len(Chain(BucketOf(oSymTable, lastOp.key) + 1)) = 2

\* the keys of the bindings reachable from the bucket array
BoundKeys == {Bindings[i][1] : i \in 1..Len(Bindings)}

\* C13: Get, Contains, Replace and Remove of a key that no binding has
\* return NULL / 0 and leave the record, the bucket array, the nodes, the
\* key copies and the allocated blocks unchanged; Remove does so also when
\* the chain of the key's bucket is empty.
C13_AbsentKey ==
    [][\A k \in Keys :
        (/\ oSymTable.live
         /\ lastOp'.name \in {"get", "contains", "replace", "remove"}
         /\ lastOp'.key = k
         /\ k \notin BoundKeys)
        => /\ lastOp'.ret = NULL
           /\ lastOp'.name = "remove" => lastOp'.pos = "absent"
           /\ oSymTable' = oSymTable
           /\ nodeMem' = nodeMem
           /\ keyMem' = keyMem
           /\ blocks' = blocks]_vars

\* a Remove of an absent key walked a chain of two bindings to its end
C13_Witness ==
    /\ lastOp.name = "remove"
    /\ lastOp.pos = "absent"
    /\ lastOp.key \notin BoundKeys
    /\ Len(Chain(BucketOf(oSymTable, lastOp.key) + 1)) = 2

\* C14: from every state with a live table and for every key k (the
\* Contains and Get calls are enabled there for every k), Contains(k)
\* returns 1 exactly when some binding has key k and Get(k) returns the
\* value of that binding; neither call changes the table or the heap.
C14_LookupCorrect ==
    [][lastOp'.name \in {"get", "contains"} =>
            /\ oSymTable' = oSymTable
            /\ nodeMem' = nodeMem
            /\ keyMem' = keyMem
            /\ blocks' = blocks
            /\ lastOp'.name = "contains" =>
                  lastOp'.ret = IF lastOp'.key \in BoundKeys THEN 1 ELSE 0
            /\ lastOp'.name = "get" =>
                  IF lastOp'.key \in BoundKeys
                  THEN <<lastOp'.key, lastOp'.ret>> \in Mapping
                  ELSE lastOp'.ret = NULL]_vars

\* a Get found a non-NULL value in a binding that is not the head of its
\* chain, the head holding another value
C14_Witness ==
    /\ lastOp.name = "get"
    /\ lastOp.ret # NULL
    /\ LET head == oSymTable.buckets[BucketOf(oSymTable, lastOp.key) + 1]
       IN  /\ head # NodeOfKey(lastOp.key)
           /\ nodeMem[head].value # lastOp.ret

\* C15: a Map call applies the visitor exactly bindingsCount times: once
\* for every bound key, with the value Get returns for it, never for an
\* unbound key and never twice for one key; the call changes nothing.
C15_MapVisitsEachOnce ==
    [][lastOp'.name = "map" =>
          LET visits == lastOp'.visits
          IN  /\ Len(visits) = oSymTable.bindingsCount
              /\ \A i \in 1..Len(visits) :
                    /\ ContainsNow(visits[i][1]) = 1
                    /\ GetNow(visits[i][1]) = visits[i][2]
                    /\ \A j \in 1..Len(visits) :
                          visits[j][1] = visits[i][1] => j = i
              /\ \A k \in Keys :
                    ContainsNow(k) = 1 =>
                        \E i \in 1..Len(visits) : visits[i][1] = k
              /\ oSymTable' = oSymTable
              /\ nodeMem' = nodeMem
              /\ keyMem' = keyMem
              /\ blocks' = blocks]_vars

\* a Map call over three bindings that sit in several buckets, two of them
\* in one chain
C15_Witness ==
    /\ lastOp.name = "map"
    /\ Len(lastOp.visits) = 3
    /\ \E i \in 1..Len(oSymTable.buckets) : Len(Chain(i)) = 2
    /\ \E i \in 2..Len(oSymTable.buckets) : Len(Chain(i)) > 0

\* C16: right after a New call that returned a table, the capacity index
\* is 0, the bucket array has BUCKET_COUNTS[0] heads, all of them NULL,
\* bindingsCount and GetLength are 0 and Contains(k) is 0 for every key.
C16_NewIsEmpty ==
    (lastOp.name = "new" /\ lastOp.ret # NULL) =>
        /\ oSymTable.live
        /\ oSymTable.bucketSizeIndex = 0
        /\ Len(oSymTable.buckets) = BUCKET_COUNTS[1]
        /\ \A i \in 1..Len(oSymTable.buckets) : oSymTable.buckets[i] = NULL
        /\ oSymTable.bindingsCount = 0
        /\ SymTable_getLength(oSymTable) = 0
        /\ \A k \in Keys : ContainsNow(k) = 0 /\ GetNow(k) = NULL
        /\ LiveAddrs(nodeMem) = {}
        /\ LiveAddrs(keyMem) = {}

\* a New call has just returned a table
C16_Witness ==
    /\ lastOp.name = "new"
    /\ lastOp.ret # NULL
    /\ oSymTable.live
    /\ blocks = [record |-> 1, buckets |-> 1]

\* C17: a New call that fails to allocate the record or the bucket array
\* returns NULL and leaves the heap as it found it: no record, no bucket
\* array, no table.
C17_FailedNewLeavesNothing ==
    [][(lastOp'.name = "new" /\ lastOp'.fail # "") =>
          /\ lastOp'.ret = NULL
          /\ oSymTable' = NoTable
          /\ blocks' = blocks
          /\ blocks' = [record |-> 0, buckets |-> 0]
          /\ nodeMem' = nodeMem
          /\ keyMem' = keyMem]_vars

\* a New call has just failed at the calloc of the bucket array, after the
\* record was allocated
C17_Witness ==
    /\ lastOp.name = "new"
    /\ lastOp.fail = "buckets"
    /\ lastOp.ret = NULL
    /\ ~oSymTable.live

\* C18: a Free call frees every allocated block exactly once: each live
\* node and each live key copy (so none was leaked by an earlier Put,
\* Remove or growth), the one bucket array and the one record; no call of
\* free is repeated, none is for a block that is not allocated, and only
\* nodes, key copies, the bucket array and the record are freed, never a
\* value or a key buffer of the caller.
C18_FreeReleasesAll ==
    [][lastOp'.name = "free" =>
          LET mem == lastOp'.visits
          IN  /\ \A i, j \in 1..Len(mem) : mem[i] = mem[j] => i = j
              /\ \A i \in 1..Len(mem) :
                    /\ mem[i][1] = "free"
                    /\ mem[i][2] \in {"node", "key", "buckets", "record"}
              /\ FreedAddrs(mem, "node") = LiveAddrs(nodeMem)
              /\ FreedAddrs(mem, "key") = LiveAddrs(keyMem)
              /\ Len(mem) = 2 * Cardinality(LiveAddrs(nodeMem)) + 2
              /\ blocks = [record |-> 1, buckets |-> 1]
              /\ blocks' = [record |-> 0, buckets |-> 0]
              /\ LiveAddrs(nodeMem') = {}
              /\ LiveAddrs(keyMem') = {}
              /\ ~oSymTable'.live]_vars

\* a Free call has just released a table with three bindings
C18_Witness ==
    /\ lastOp.name = "free"
    /\ Len(lastOp.visits) = 8
    /\ blocks = [record |-> 0, buckets |-> 0]

\* C19: the key of every binding is a block of the container, allocated by
\* the Put that made the binding and holding the bytes of its key, never
\* the buffer of the caller; when the caller overwrites or frees its buffer
\* the table, the nodes and the key copies stay as they are, and so do the
\* results of Get, Contains, Replace, Remove and Map for every key.
C19_KeyNotAliased ==
    [][/\ \A n \in LiveAddrs(nodeMem') :
            /\ nodeMem'[n].key \in NodeAddrs
            /\ keyMem'[nodeMem'[n].key].live
            /\ n \notin LiveAddrs(nodeMem) =>
                  /\ nodeMem'[n].key \notin LiveAddrs(keyMem)
                  /\ keyMem'[nodeMem'[n].key].bytes = lastOp'.key
       /\ lastOp'.name = "clobber" =>
            /\ oSymTable' = oSymTable
            /\ nodeMem' = nodeMem
            /\ \A a \in NodeAddrs : keyMem'[a] = keyMem[a]
            /\ oSymTable.live =>
                  /\ Bindings' = Bindings
                  /\ \A k \in Keys :
                        /\ ContainsNow(k)' = ContainsNow(k)
                        /\ GetNow(k)' = GetNow(k)
                        /\ SymTable_replace(oSymTable, nodeMem, keyMem, k,
                                            NULL)'.ret
                             = SymTable_replace(oSymTable, nodeMem, keyMem,
                                                k, NULL).ret
                        /\ SymTable_remove(oSymTable, nodeMem, keyMem, k)'.ret
                             = SymTable_remove(oSymTable, nodeMem, keyMem,
                                               k).ret]_vars

\* a Get finds a binding after the caller has freed the buffer from which
\* the keys of all three bindings were put
C19_Witness ==
    /\ ~keyMem[CallerAddr].live
    /\ lastOp.name = "get"
    /\ lastOp.ret # NULL
    /\ oSymTable.live
    /\ Len(Bindings) = 3

\* C20: when the same calls (New, Put, Get, Contains, Replace, Remove,
\* GetLength; no allocation fails) are made on a table of each variant,
\* every call of the linked-list variant returns, and it returns what the
\* call of the hash-table variant returned.
C20_VariantsAgree ==
    lastOp.name # "init" => listRet = Returned(lastOp.ret)

\* C21: across every step on one table bucketSizeIndex stays the same or
\* increases by exactly 1; it changes only in a Put (never in a Remove or
\* any other call).
C21_IndexStepsByOne ==
    [][(oSymTable.live /\ oSymTable'.live) =>
          /\ oSymTable'.bucketSizeIndex \in
                {oSymTable.bucketSizeIndex, oSymTable.bucketSizeIndex + 1}
          /\ oSymTable'.bucketSizeIndex # oSymTable.bucketSizeIndex =>
                /\ lastOp'.name = "put"
                /\ lastOp'.grow = "done"]_vars

\* a table that grew to the last capacity has been emptied by a Remove
\* and is still at the last capacity
C21_Witness ==
    /\ oSymTable.live
    /\ lastOp.name = "remove"
    /\ lastOp.ret # NULL
    /\ oSymTable.bindingsCount = 0
    /\ oSymTable.bucketSizeIndex = BUCKET_COUNTS_LEN - 1

\* The reference computation of the hash: h = (h * 65599 + byte) mod 2^w
\* over the bytes of the key, then h mod bucketCount; h is held in limbs
\* of 16 bits and h * 65599 is computed as (h << 16) + 63 * h
RefLimbs == WordBytes \div 2

RECURSIVE RefStep(_, _, _, _)
RefStep(h, byte, carry, i) ==
    IF i > RefLimbs THEN <<>>
    ELSE LET t == (IF i = 1 THEN byte ELSE h[i - 1]) + 63 * h[i] + carry
         IN  <<t % 65536>> \o RefStep(h, byte, t \div 65536, i + 1)

RECURSIVE RefAcc(_, _, _)
RefAcc(bytes, u, h) ==
    IF u > Len(bytes) THEN h
    ELSE RefAcc(bytes, u + 1, RefStep(h, bytes[u], 0, 1))

RECURSIVE RefMod(_, _, _, _)
RefMod(h, n, r, i) ==
    IF i < 1 THEN r ELSE RefMod(h, n, (r * 65536 + h[i]) % n, i - 1)

RefHash(bytes, n) ==
    RefMod(RefAcc(bytes, 1, [i \in 1..RefLimbs |-> 0]), n, 0, RefLimbs)

C23_HashIsReference ==
    lastOp.name = "hash" =>
        lastOp.ret = RefHash(lastOp.visits, lastOp.value)

\* C24: in every state with a live table, every binding reachable from
\* bucket i has SymTable_hash(key, BUCKET_COUNTS[bucketSizeIndex]) = i;
\* the states after an expansion, after a failed calloc of the expansion
\* and after a failed Put are among them.
C24_BindingsInTheirBucket ==
    oSymTable.live =>
        \A i \in 1..Len(oSymTable.buckets) :
            \A j \in 1..Len(Chain(i)) :
                Hash(Chain(i)[j][1],
                     BUCKET_COUNTS[oSymTable.bucketSizeIndex + 1]) = i - 1

\* a Put has just expanded the table and then failed to allocate its
\* node; the table holds bindings in a bucket other than bucket 0
C24_Witness ==
    /\ oSymTable.live
    /\ lastOp.name = "put"
    /\ lastOp.grow = "done"
    /\ lastOp.fail = "node"
    /\ \E i \in 2..Len(oSymTable.buckets) : Len(Chain(i)) > 0

\* C25: in every state with a live table bindingsCount is the number of
\* Binding nodes reachable from the bucket array, and it is not negative
\* (the size_t counter is never decremented at 0).
C25_CountIsReachableNodes ==
    oSymTable.live =>
        /\ oSymTable.bindingsCount = Len(Bindings)
        /\ oSymTable.bindingsCount >= 0

\* the last binding of a grown table has just been removed: the count is
\* back at 0
C25_Witness ==
    /\ oSymTable.live
    /\ lastOp.name = "remove"
    /\ lastOp.pos = "head"
    /\ oSymTable.bucketSizeIndex = 1
    /\ oSymTable.bindingsCount = 0

\* the calls of kind "buckets" among the calls of mem
BucketEvents(mem) == SelectSeq(mem, LAMBDA e : e[2] = "buckets")

C27_NoGrowthAtLastCapacity ==
    [][(oSymTable.live /\ oSymTable'.live
        /\ oSymTable.bucketSizeIndex = BUCKET_COUNTS_LEN - 1) =>
          /\ oSymTable'.bucketSizeIndex = oSymTable.bucketSizeIndex
          /\ Len(oSymTable'.buckets) = Len(oSymTable.buckets)
          /\ blocks' = blocks
          /\ lastOp'.name = "put" =>
                /\ lastOp'.grow = "none"
                /\ BucketEvents(lastOp'.visits) = <<>>
          /\ (/\ lastOp'.name = "put"
              /\ ContainsNow(lastOp'.key) = 0
              /\ lastOp'.fail \notin {"node", "key"}) =>
                /\ lastOp'.ret = 1
                /\ oSymTable'.bindingsCount = oSymTable.bindingsCount + 1
                /\ Cardinality(LiveAddrs(nodeMem'))
                      = Cardinality(LiveAddrs(nodeMem)) + 1]_vars

\* a Put has just returned 1 at the last capacity and bindingsCount is
\* greater than the number of buckets
C27_Witness ==
    /\ lastOp.name = "put"
    /\ lastOp.ret = 1
    /\ oSymTable.bucketSizeIndex = BUCKET_COUNTS_LEN - 1
    /\ oSymTable.bindingsCount > BUCKET_COUNTS[BUCKET_COUNTS_LEN]
    /\ Len(oSymTable.buckets) = BUCKET_COUNTS[BUCKET_COUNTS_LEN]

\* the position of the first call e in mem, 0 if there is none
FirstAt(mem, e) ==
    IF \E i \in 1..Len(mem) : mem[i] = e
    THEN CHOOSE i \in 1..Len(mem) :
            mem[i] = e /\ \A j \in 1..(i - 1) : mem[j] # e
    ELSE 0

\* C28: a Put that expands the table first callocs the new bucket array,
\* then relinks every node that was allocated, each once, then frees the
\* old bucket array, once; it allocates and frees no other bucket array.
\* The nodes and key copies allocated before are still allocated, each
\* node with the same key block and value and each key copy with the same
\* bytes; the only new node and key copy are those of the Put itself. All
\* heads and next fields of the new array are NULL or allocated nodes.
C28_GrowthRelinksInPlace ==
    [][(lastOp'.name = "put" /\ lastOp'.grow = "done") =>
          LET mem == lastOp'.visits
              f == FirstAt(mem, Ev("free", "buckets", NULL))
          IN  /\ mem[1] = Ev("alloc", "buckets", NULL)
              /\ f = Cardinality(LiveAddrs(nodeMem)) + 2
              /\ \A i \in 2..(f - 1) : mem[i][1] = "relink"
              /\ {mem[i][3] : i \in 2..(f - 1)} = LiveAddrs(nodeMem)
              /\ \A i \in (f + 1)..Len(mem) : mem[i][2] \in {"node", "key"}
              /\ blocks' = blocks
              /\ \A a \in LiveAddrs(nodeMem) :
                    /\ nodeMem'[a].live
                    /\ nodeMem'[a].key = nodeMem[a].key
                    /\ nodeMem'[a].value = nodeMem[a].value
              /\ \A a \in LiveAddrs(keyMem) : keyMem'[a] = keyMem[a]
              /\ Cardinality(LiveAddrs(nodeMem'))
                    = Cardinality(LiveAddrs(nodeMem)) + lastOp'.ret
              /\ Cardinality(LiveAddrs(keyMem'))
                    = Cardinality(LiveAddrs(keyMem)) + lastOp'.ret
              /\ Len(Bindings') = Len(Bindings) + lastOp'.ret
              /\ \A i \in 1..Len(oSymTable'.buckets) :
                    oSymTable'.buckets[i] \in LiveAddrs(nodeMem') \cup {NULL}
              /\ \A a \in LiveAddrs(nodeMem') :
                    nodeMem'[a].next \in LiveAddrs(nodeMem') \cup {NULL}]_vars

\* a Put has just moved two bindings into the bucket array of the last
\* capacity and then failed to allocate its node: the state is that of
\* the expansion alone
C28_Witness ==
    /\ lastOp.name = "put"
    /\ lastOp.grow = "done"
    /\ lastOp.fail = "node"
    /\ oSymTable.bucketSizeIndex = 2
    /\ oSymTable.bindingsCount = 2
    /\ Len(lastOp.visits) = 4

RECURSIVE ChainAddrs(_, _)
\* the nodes of a chain, in the order of the next pointers
ChainAddrs(nodes, curr) ==
    IF curr = NULL THEN <<>>
    ELSE <<curr>> \o ChainAddrs(nodes, nodes[curr].next)

RECURSIVE AddrsFrom(_, _, _)
\* the nodes reachable from buckets i .. Len(buckets) - 1
AddrsFrom(nodes, buckets, i) ==
    IF i >= Len(buckets) THEN <<>>
    ELSE ChainAddrs(nodes, buckets[i + 1]) \o AddrsFrom(nodes, buckets, i + 1)

\* the nodes reachable from the bucket array of the table
ReachableNodes == AddrsFrom(nodeMem, oSymTable.buckets, 0)

\* C29: while the table exists its allocated blocks are the record, one
\* bucket array, the nodes reachable from the buckets, each reachable once
\* and one per binding, and one key copy per node, no two nodes sharing
\* one; every reachable node and its key copy are allocated and nothing
\* else is.
C29_BlocksAreExactlyTheTable ==
    oSymTable.live =>
        LET reach == ReachableNodes
            reachSet == {reach[i] : i \in 1..Len(reach)}
            keyBlocks == {nodeMem[a].key : a \in reachSet}
        IN  /\ blocks = [record |-> 1, buckets |-> 1]
            /\ Len(reach) = oSymTable.bindingsCount
            /\ Cardinality(reachSet) = Len(reach)
            /\ LiveAddrs(nodeMem) = reachSet
            /\ LiveAddrs(keyMem) = keyBlocks
            /\ Cardinality(keyBlocks) = Len(reach)

\* with two bindings in the table a Put of a third key has failed to
\* expand the table, allocated its node and failed to allocate the key copy
C29_Witness ==
    /\ lastOp.name = "put"
    /\ lastOp.grow = "failed"
    /\ lastOp.fail = "key"
    /\ oSymTable.live
    /\ oSymTable.bindingsCount = 2
    /\ Cardinality(LiveAddrs(nodeMem)) = 2

\* C30: the bucket array of a live table has BUCKET_COUNTS[bucketSizeIndex]
\* slots and bucketSizeIndex is an index of BUCKET_COUNTS; the bucket a key
\* is looked up in, the bucket a Put links its node into after the
\* expansion it attempted, and the buckets the loops of ForEach and Destroy
\* visit all lie inside the array.
C30_BucketIndexInsideArray ==
    oSymTable.live =>
        /\ oSymTable.bucketSizeIndex \in 0..(BUCKET_COUNTS_LEN - 1)
        /\ Len(oSymTable.buckets) = BucketCountAt(oSymTable.bucketSizeIndex)
        /\ \A k \in AllKeys :
              BucketOf(oSymTable, k) \in 0..(Len(oSymTable.buckets) - 1)
        /\ \A k \in AllKeys, callocOK \in BOOLEAN :
              LET ex == SymTable_tryExpand(oSymTable, nodeMem, keyMem,
                                           callocOK)
              IN  InsertSlot(oSymTable, ex.tab, k)
                      \in 0..(Len(ex.tab.buckets) - 1)
        /\ \A i \in 0..(BucketCountAt(oSymTable.bucketSizeIndex) - 1) :
              i + 1 \in DOMAIN oSymTable.buckets

\* a Put has expanded the table to its last capacity and linked its node
\* into a bucket other than the first
C30_Witness ==
    /\ lastOp.name = "put"
    /\ lastOp.grow = "done"
    /\ lastOp.ret = 1
    /\ oSymTable.bucketSizeIndex = BUCKET_COUNTS_LEN - 1
    /\ BucketOf(oSymTable, lastOp.key) >= 1
    /\ oSymTable.buckets[BucketOf(oSymTable, lastOp.key) + 1] # NULL

\* the values of the insertion-order runs: the caller passes the number
\* of the insertion as the value
MaxStamp == MaxNodes + 1

\* the value the caller passes next: one more than every value bound
NextStamp ==
    IF Bindings = <<>> THEN 1
    ELSE 1 + (CHOOSE m \in 1..MaxStamp :
                /\ \E i \in 1..Len(Bindings) : Bindings[i][2] = m
                /\ \A i \in 1..Len(Bindings) : Bindings[i][2] <= m)

\* SymTable_put with the number of the insertion as the value; the node
\* and the key copy are allocated, the bucket array may not be
PutStamped ==
    /\ UNCHANGED <<listVars, twin>>
    /\ oSymTable.live
    /\ NextStamp <= MaxStamp
    /\ \E pcKey \in Keys, callocOK \in BOOLEAN :
          /\ AllocCalls(oSymTable, nodeMem, keyMem, pcKey, callocOK, TRUE,
                        TRUE)
          /\ LET r == SymTable_put(oSymTable, nodeMem, keyMem, pcKey,
                                   NextStamp, callocOK, TRUE, TRUE)
             IN  /\ oSymTable' = r.tab
                 /\ nodeMem' = r.nodes
                 /\ keyMem' = r.keys
                 /\ blocks' = ApplyMem(blocks, r.mem)
                 /\ lastOp' = Op("put", pcKey, NextStamp, r.ret, r.grow,
                                 r.fail, "", r.mem)
                 /\ netPuts' = netPuts + r.ret

NextOrder ==
    \/ New
    \/ PutStamped
    \/ Remove

SpecOrder == Init /\ [][NextOrder]_vars

\* the order of the visits of ForEach: ascending buckets, and with
\* newestFirst the later insertion first within one bucket
VisitOrder(newestFirst) ==
    \A p, q \in 1..Len(Bindings) :
        p < q =>
            /\ BucketOf(oSymTable, Bindings[p][1])
                  <= BucketOf(oSymTable, Bindings[q][1])
            /\ (/\ newestFirst
                /\ BucketOf(oSymTable, Bindings[p][1])
                      = BucketOf(oSymTable, Bindings[q][1]))
                  => Bindings[p][2] > Bindings[q][2]

\* C31: a Put that returns 1 makes its new node the head of the bucket its
\* key hashes to under the capacity after the expansion it attempted, with
\* the head that bucket had after the expansion as its next node and every
\* other node and head as the expansion left them; ForEach visits the
\* bindings in ascending bucket order and, while the table is at its first
\* capacity (no expansion has happened), within one bucket from the last
\* inserted to the first inserted.
C31_PutLinksAtHead ==
    [][/\ (lastOp'.name = "put" /\ lastOp'.ret = 1) =>
            \A k \in Keys :
                lastOp'.key = k =>
                    LET ex == SymTable_tryExpand(oSymTable, nodeMem, keyMem,
                                                 lastOp'.grow # "failed")
                        b == BucketOf(oSymTable', k)
                        new == oSymTable'.buckets[b + 1]
                    IN  /\ ex.grow = lastOp'.grow
                        /\ new # NULL
                        /\ ~nodeMem[new].live
                        /\ keyMem'[nodeMem'[new].key].bytes = k
                        /\ nodeMem'[new].value = lastOp'.value
                        /\ nodeMem'[new].next = ex.tab.buckets[b + 1]
                        /\ \A a \in NodeAddrs \ {new} :
                              nodeMem'[a] = ex.nodes[a]
                        /\ \A i \in 1..Len(oSymTable'.buckets) :
                              i # b + 1 =>
                                  oSymTable'.buckets[i] = ex.tab.buckets[i]
                        /\ MapChain(nodeMem', keyMem', new)
                              = <<<<k, lastOp'.value>>>>
                              \o MapChain(ex.nodes, keyMem,
                                          ex.tab.buckets[b + 1])
       /\ oSymTable'.live => VisitOrder(oSymTable.bucketSizeIndex = 0)'
      ]_vars

\* a third binding has been linked in front of two others in one bucket
\* of a table that could not expand
C31_Witness ==
    /\ lastOp.name = "put"
    /\ lastOp.ret = 1
    /\ lastOp.grow = "failed"
    /\ oSymTable.bucketSizeIndex = 0
    /\ Len(Bindings) = 3
    /\ Bindings[1] = <<lastOp.key, 3>>
    /\ Bindings[3][2] = 1

RECURSIVE AccessChain_ReadsFreed(_, _)
\* faulty variant: curr->next is read after curr has been freed
AccessChain_ReadsFreed(nodes, curr) ==
    IF curr = NULL THEN <<>>
    ELSE <<Ev("read", "node", curr),
           Ev("free", "key", nodes[curr].key),
           Ev("free", "node", curr),
           Ev("read", "node", curr)>>
         \o AccessChain_ReadsFreed(nodes, nodes[curr].next)

RECURSIVE AccessChain(_, _)
\* the reads and frees of the inner loop of SymTable_free on one chain:
\* curr->next is read, curr->key is read and freed, curr is freed
AccessChain(nodes, curr) ==
    IF curr = NULL THEN <<>>
    ELSE <<Ev("read", "node", curr),
           Ev("read", "node", curr),
           Ev("free", "key", nodes[curr].key),
           Ev("free", "node", curr)>>
         \o AccessChain(nodes, nodes[curr].next)

RECURSIVE AccessFrom(_, _, _)
\* the outer loop of SymTable_free from bucket i on: the loop test reads
\* bucketSizeIndex in the record, the body reads the buckets field of the
\* record and slot i of the array
AccessFrom(tab, nodes, i) ==
    IF i >= BucketCountAt(tab.bucketSizeIndex)
    THEN <<Ev("read", "record", NULL)>>
    ELSE <<Ev("read", "record", NULL), Ev("read", "record", NULL),
           Ev("read", "buckets", NULL)>>
         \o AccessChain(nodes, tab.buckets[i + 1])
         \o AccessFrom(tab, nodes, i + 1)

\* all reads and frees of SymTable_free, in order
SymTable_free_Accesses(tab, nodes) ==
    AccessFrom(tab, nodes, 0)
        \o <<Ev("read", "record", NULL), Ev("free", "buckets", NULL),
             Ev("free", "record", NULL)>>

\* C32: Destroy makes exactly the free calls recorded for it and no read
\* or free of a block follows the free of that block; for every binding
\* the node is read before its key copy is freed and the key copy is
\* freed before the node; every node and key copy is freed before the
\* bucket array, and the bucket array is freed before the record, which
\* is the last access. This includes the empty table.
C32_DestroyOrder ==
    [][lastOp'.name = "free" =>
          LET acc == SymTable_free_Accesses(oSymTable, nodeMem)
              n == Len(acc)
              fb == FirstAt(acc, Ev("free", "buckets", NULL))
          IN  /\ SelectSeq(acc, LAMBDA e : e[1] = "free") = lastOp'.visits
              /\ \A i, j \in 1..n :
                    (i < j /\ acc[i][1] = "free") =>
                        ~(acc[j][2] = acc[i][2] /\ acc[j][3] = acc[i][3])
              /\ \A a \in LiveAddrs(nodeMem) :
                    LET r == FirstAt(acc, Ev("read", "node", a))
                        fk == FirstAt(acc, Ev("free", "key", nodeMem[a].key))
                        fn == FirstAt(acc, Ev("free", "node", a))
                    IN  0 < r /\ r < fk /\ fk < fn /\ fn < fb
              /\ \A i \in 1..n :
                    acc[i][2] \in {"node", "key"} => i < fb
              /\ fb = n - 1
              /\ acc[n] = Ev("free", "record", NULL)]_vars

\* Destroy has freed a table of two bindings: two key copies, two nodes,
\* the bucket array and the record
C32_Witness ==
    /\ lastOp.name = "free"
    /\ Len(lastOp.visits) = 6
    /\ lastOp.visits[1][2] = "key"
    /\ lastOp.visits[2][2] = "node"
    /\ lastOp.visits[5] = Ev("free", "buckets", NULL)
    /\ ~oSymTable.live

\* SymTable_put in the runs where calloc of a larger bucket array never
\* fails; malloc of the node and of the key copy may fail
PutGrowing ==
    /\ UNCHANGED <<listVars, twin>>
    /\ oSymTable.live
    /\ \E pcKey \in ManyKeys, nodeOK \in BOOLEAN, keyOK \in BOOLEAN :
          /\ AllocCalls(oSymTable, nodeMem, keyMem, pcKey, TRUE, nodeOK,
                        keyOK)
          /\ LET r == SymTable_put(oSymTable, nodeMem, keyMem, pcKey, 1,
                                   TRUE, nodeOK, keyOK)
             IN  /\ oSymTable' = r.tab
                 /\ nodeMem' = r.nodes
                 /\ keyMem' = r.keys
                 /\ blocks' = ApplyMem(blocks, r.mem)
                 /\ lastOp' = Op("put", pcKey, 1, r.ret, r.grow, r.fail, "",
                                 r.mem)
                 /\ netPuts' = netPuts + r.ret

\* the runs in which no expansion of a table fails
NextGrows ==
    \/ New
    \/ PutGrowing
    \/ RemoveMany

SpecGrows == Init /\ [][NextGrows]_vars

\* C33: when no expansion fails, after every operation bindingsCount is
\* at most the capacity unless the capacity is the last one, and the step
\* that takes a table from its first capacity to the second is a Put that
\* leaves bindingsCount at the first capacity plus one.
C33_LoadFactorAndFirstGrowth ==
    [][/\ (oSymTable'.live
              /\ oSymTable'.bucketSizeIndex < BUCKET_COUNTS_LEN - 1) =>
             oSymTable'.bindingsCount
                 <= BucketCountAt(oSymTable'.bucketSizeIndex)
       /\ (oSymTable.live /\ oSymTable'.live
              /\ oSymTable.bucketSizeIndex = 0
              /\ oSymTable'.bucketSizeIndex # 0) =>
             /\ lastOp'.name = "put"
             /\ oSymTable'.bucketSizeIndex = 1
             /\ oSymTable'.bindingsCount = BucketCountAt(0) + 1]_vars

\* C34: in every state of a live table and for every key k, Get(k) is
\* NULL exactly when Contains(k) is 0, and a Replace returns NULL exactly
\* when its key was not bound.
C34_NullMeansAbsent ==
    [][/\ oSymTable'.live =>
             \A k \in Keys : (GetNow(k)' = NULL) <=> (ContainsNow(k)' = 0)
       /\ lastOp'.name = "replace" =>
             \A k \in Keys :
                 lastOp'.key = k =>
                     ((lastOp'.ret = NULL) <=> (ContainsNow(k) = 0))]_vars

\* the same call made on both tables: SymTable_new
TwinNew ==
    /\ UNCHANGED listVars
    /\ ~oSymTable.live
    /\ LET r == SymTable_new(TRUE, TRUE)
       IN  /\ oSymTable' = r.tab
           /\ blocks' = ApplyMem(blocks, r.mem)
           /\ lastOp' = Op("new", <<>>, NULL, 1, "none", r.fail, "", <<>>)
           /\ twin' = [twin EXCEPT !.tab = r.tab, !.ret = 1]
    /\ netPuts' = 0
    /\ UNCHANGED <<nodeMem, keyMem>>

\* SymTable_getLength on both tables
TwinGetLength ==
    /\ UNCHANGED listVars
    /\ oSymTable.live
    /\ lastOp' = Op("getLength", <<>>, NULL, SymTable_getLength(oSymTable),
                    "none", "", "", <<>>)
    /\ twin' = [twin EXCEPT !.ret = SymTable_getLength(twin.tab)]
    /\ UNCHANGED <<oSymTable, nodeMem, keyMem, blocks, netPuts>>

\* SymTable_put on both tables: malloc of the node and of the key copy
\* have the same outcome in both; calloc of the larger bucket array
\* succeeds in the first table and fails in the second whenever it is
\* called
TwinPut ==
    /\ UNCHANGED listVars
    /\ oSymTable.live
    /\ \E pcKey \in Keys, pvValue \in Values, nodeOK \in BOOLEAN,
          keyOK \in BOOLEAN, twinCallocOK \in BOOLEAN :
          /\ AllocCalls(oSymTable, nodeMem, keyMem, pcKey, TRUE, nodeOK,
                        keyOK)
          /\ AllocCalls(twin.tab, twin.nodes, twin.keys, pcKey,
                        twinCallocOK, nodeOK, keyOK)
          /\ twinCallocOK =>
                \/ ~ExpandWarranted(twin.tab)
                \/ SymTable_contains(twin.tab, twin.nodes, twin.keys,
                                     pcKey) = 1
          /\ LET r == SymTable_put(oSymTable, nodeMem, keyMem, pcKey,
                                   pvValue, TRUE, nodeOK, keyOK)
                 t == SymTable_put(twin.tab, twin.nodes, twin.keys, pcKey,
                                   pvValue, twinCallocOK, nodeOK, keyOK)
             IN  /\ oSymTable' = r.tab
                 /\ nodeMem' = r.nodes
                 /\ keyMem' = r.keys
                 /\ blocks' = ApplyMem(blocks, r.mem)
                 /\ lastOp' = Op("put", pcKey, pvValue, r.ret, r.grow,
                                 r.fail, "", r.mem)
                 /\ netPuts' = netPuts + r.ret
                 /\ twin' = [tab |-> t.tab, nodes |-> t.nodes,
                             keys |-> t.keys, ret |-> t.ret]

\* SymTable_replace on both tables
TwinReplace ==
    /\ UNCHANGED listVars
    /\ oSymTable.live
    /\ \E pcKey \in Keys, pvValue \in Values :
          LET r == SymTable_replace(oSymTable, nodeMem, keyMem, pcKey,
                                    pvValue)
              t == SymTable_replace(twin.tab, twin.nodes, twin.keys, pcKey,
                                    pvValue)
          IN  /\ nodeMem' = r.nodes
              /\ lastOp' = Op("replace", pcKey, pvValue, r.ret, "none", "",
                              "", <<>>)
              /\ twin' = [twin EXCEPT !.nodes = t.nodes, !.ret = t.ret]
    /\ UNCHANGED <<oSymTable, keyMem, blocks, netPuts>>

\* SymTable_contains on both tables
TwinContains ==
    /\ UNCHANGED listVars
    /\ oSymTable.live
    /\ \E pcKey \in Keys :
          /\ lastOp' = Op("contains", pcKey, NULL,
                          SymTable_contains(oSymTable, nodeMem, keyMem,
                                            pcKey),
                          "none", "", "", <<>>)
          /\ twin' = [twin EXCEPT !.ret =
                        SymTable_contains(twin.tab, twin.nodes, twin.keys,
                                          pcKey)]
    /\ UNCHANGED <<oSymTable, nodeMem, keyMem, blocks, netPuts>>

\* SymTable_get on both tables
TwinGet ==
    /\ UNCHANGED listVars
    /\ oSymTable.live
    /\ \E pcKey \in Keys :
          /\ lastOp' = Op("get", pcKey, NULL,
                          SymTable_get(oSymTable, nodeMem, keyMem, pcKey),
                          "none", "", "", <<>>)
          /\ twin' = [twin EXCEPT !.ret =
                        SymTable_get(twin.tab, twin.nodes, twin.keys, pcKey)]
    /\ UNCHANGED <<oSymTable, nodeMem, keyMem, blocks, netPuts>>

\* SymTable_remove on both tables
TwinRemove ==
    /\ UNCHANGED listVars
    /\ oSymTable.live
    /\ \E pcKey \in Keys :
          LET r == SymTable_remove(oSymTable, nodeMem, keyMem, pcKey)
              wasBound == SymTable_contains(oSymTable, nodeMem, keyMem,
                                            pcKey)
              t == SymTable_remove(twin.tab, twin.nodes, twin.keys, pcKey)
          IN  /\ oSymTable' = r.tab
              /\ nodeMem' = r.nodes
              /\ keyMem' = r.keys
              /\ lastOp' = Op("remove", pcKey, NULL, r.ret, "none", "",
                              r.pos, <<>>)
              /\ netPuts' = netPuts - wasBound
              /\ twin' = [tab |-> t.tab, nodes |-> t.nodes, keys |-> t.keys,
                          ret |-> t.ret]
    /\ UNCHANGED blocks

NextTwin ==
    \/ TwinNew
    \/ TwinGetLength
    \/ TwinPut
    \/ TwinReplace
    \/ TwinContains
    \/ TwinGet
    \/ TwinRemove

SpecTwin == Init /\ [][NextTwin]_vars

\* the bindings of the second table, as a set of <<key, value>>
TwinMapping ==
    LET b == SymTable_map(twin.tab, twin.nodes, twin.keys)
    IN  {b[i] : i \in 1..Len(b)}

\* C35: two tables given the same calls of Put, Get, Contains, Replace,
\* Remove and GetLength, with the same outcomes of the node and key-copy
\* allocations and differing outcomes of the bucket-array allocations,
\* return the same result from every call and hold the same key -> value
\* bindings after every call.
C35_GrowthInvisible ==
    lastOp.name # "init" =>
        /\ twin.ret = lastOp.ret
        /\ twin.tab.live = oSymTable.live
        /\ TwinMapping = Mapping
        /\ twin.tab.bindingsCount = oSymTable.bindingsCount

\* three bindings were put in both tables; every expansion succeeded in
\* one and failed in the other, and a Get has just found a key in both
C35_Witness ==
    /\ lastOp.name = "get"
    /\ lastOp.ret = 1
    /\ oSymTable.bindingsCount = 3
    /\ oSymTable.bucketSizeIndex = 2
    /\ twin.tab.bucketSizeIndex = 0
    /\ twin.ret = 1

RECURSIVE WalkChain(_, _, _)
\* the nodes met by following next pointers from curr, at most fuel of them
WalkChain(nodes, curr, fuel) ==
    IF curr = NULL \/ fuel = 0 THEN <<>>
    ELSE <<curr>> \o WalkChain(nodes, nodes[curr].next, fuel - 1)

RECURSIVE EndsWithin(_, _, _)
\* following next pointers from curr reaches NULL after at most fuel nodes
EndsWithin(nodes, curr, fuel) ==
    IF curr = NULL THEN TRUE
    ELSE IF fuel = 0 THEN FALSE
    ELSE EndsWithin(nodes, nodes[curr].next, fuel - 1)

\* C36: in every state of a live table, the state right after an
\* expansion included, following the next pointers from any bucket reaches
\* NULL after at most bindingsCount nodes, all of them allocated, without
\* meeting a node twice, and no node is met from two buckets: the loops of
\* Put, Get, Contains, Replace, Remove, ForEach and Destroy, which follow
\* these pointers, make at most that many iterations per chain.
C36_ChainsFiniteAndDisjoint ==
    oSymTable.live =>
        LET n == Len(oSymTable.buckets)
            walk(i) == WalkChain(nodeMem, oSymTable.buckets[i], MaxNodes + 1)
        IN  /\ \A i \in 1..n :
                  /\ EndsWithin(nodeMem, oSymTable.buckets[i],
                                oSymTable.bindingsCount)
                  /\ Len(walk(i)) <= oSymTable.bindingsCount
                  /\ \A p, q \in 1..Len(walk(i)) :
                        walk(i)[p] = walk(i)[q] => p = q
                  /\ \A p \in 1..Len(walk(i)) : nodeMem[walk(i)[p]].live
            /\ \A i, j \in 1..n :
                  i # j =>
                      \A p \in 1..Len(walk(i)), q \in 1..Len(walk(j)) :
                          walk(i)[p] # walk(j)[q]

\* a Put has expanded the table and one bucket of the new array holds a
\* chain of two nodes
C36_Witness ==
    /\ lastOp.name = "put"
    /\ lastOp.grow = "done"
    /\ oSymTable.live
    /\ \E i \in 1..Len(oSymTable.buckets) :
          Len(WalkChain(nodeMem, oSymTable.buckets[i], MaxNodes + 1)) = 2

====
